---- MODULE Spec2Model ----
(***************************************************************************)
(* Model of the athome scraper: the crawl orchestration (scrape_all), the  *)
(* SQLite listing store (PropertyDatabase) and the ranker (PropertyRanker).*)
(*                                                                         *)
(* A crawl run is one OS process that builds a scraper object and calls    *)
(* scrape_all once (scripts/run_scraper.py).  Spec runs one such process   *)
(* after the other (SpecLong and SpecSeq: more runs; SpecTwin: a site that *)
(* lists one listing under two URLs); SpecConc lets two processes overlap  *)
(* on the same database file; SpecPages follows _get_property_urls page by *)
(* page, where the other specifications take the list in one step.         *)
(* SpecStore and SpecQuery are clients that call the store directly,       *)
(* SpecRank is a client of the ranker, as tests/test_demo.py does, and     *)
(* SpecExtract calls _extract_property_id and _scrape_property_detail of   *)
(* both scrapers.  Every SQL statement is one atomic step; in a crawl the  *)
(* SELECT and the INSERT/UPDATE of upsert_property are separate steps.     *)
(*                                                                         *)
(* All column values but the grade are integers: NULL (None) is -1,        *)
(* is_active is 1 or 0 as SQLite stores it, timestamps are readings of the *)
(* variable clock.  Texts are sequences of characters or tokens.           *)
(***************************************************************************)
EXTENDS Integers, FiniteSets, Sequences, TLC

\* ---------------------------------------------------------------- bounds
NumUrls == 2        \* detail URLs the site can list
MaxClock == 1       \* Spec: last reading of the clock
MaxLongClock == 3   \* SpecLong: last reading of the clock
NumConcUrls == 1    \* SpecConc: detail URLs the site lists during the overlap
NumSeqUrls == 1     \* SpecSeq: detail URLs the site can list
MaxSeqClock == 2    \* SpecSeq: last reading of the clock
MaxStoreClock == 2  \* SpecStore: last reading of the clock
MaxRankPrice == 31  \* SpecRank: highest price_numeric handed to calculate_rank
MaxPathLen == 4     \* SpecExtract: longest URL path, in characters
MaxPages == 2       \* SpecPages: largest max_pages configured
NumPageUrls == 2    \* SpecPages: detail URLs the list pages link to
MaxCollected == 3   \* SpecPages: most links the list pages hold together
MaxPagesClock == 1  \* SpecPages: last reading of the clock
MaxTwinClock == 2   \* SpecTwin: last reading of the clock

NULL == 0 - 1

Procs == {"cron", "manual"}
Urls == 1..NumUrls
PropertyIds == {1, 2}

Columns ==
  {"id", "property_id", "price_numeric", "land_area_tsubo",
   "ranking_score", "ranking_grade", "price_evaluation",
   "location_evaluation", "area_evaluation", "investment_evaluation",
   "scraped_at", "updated_at", "is_active"}

VARIABLES
  properties,           \* table properties: a set of rows (functions on Columns)
  scraping_logs,        \* table scraping_logs: sequence of entries
  clock,                \* datetime.now()
  pc,                   \* position of each process inside scrape_all
  property_urls,        \* set of URLs returned by _get_property_urls
  remaining,            \* URLs of property_urls the for loop has not reached
  url,                  \* loop variable url
  property_data,        \* dict built by _scrape_property_detail + rank_info
  existing,             \* result of the SELECT in upsert_property
  active_property_ids,  \* ids appended after a successful upsert
  stats,                \* self.stats counters
  deactivated,          \* value returned by deactivate_old_properties
  reconciled,           \* argument sets deactivate_old_properties was called with
  outcome,              \* per processed URL: "new", "updated", "none" or "error"
  enumeration_error,    \* _get_property_urls caught an exception and broke off
  logged,               \* dicts log_scraping was called with during the run
  page,                 \* _get_property_urls: number of the list page
  collected_urls,       \* _get_property_urls: its list property_urls
  max_pages,            \* scraping_config['max_pages'] of the process
  list_fetches,         \* list pages fetched during the run
  since_fetch,          \* what the run did last: "fetched", or "slept" for
                        \* request_delay ("none" before the first fetch)
  ret                   \* the last direct call and what it returned

\* the variables of _get_property_urls
enumeration_vars == <<page, collected_urls, max_pages, list_fetches>>

vars ==
  <<properties, scraping_logs, clock, pc, property_urls, remaining, url,
    property_data, existing, active_property_ids, stats, deactivated,
    reconciled, outcome, enumeration_error, logged, enumeration_vars,
    since_fetch, ret>>

\* ------------------------------------------------------------ pure helpers

\* id taken from the first digit run of the URL path; the site's URLs carry
\* the digits of two listings, so URLs 1 and 3 name the same listing
ExtractPropertyId(u) == ((u - 1) % 2) + 1

Get(d, k, default) == IF k \in DOMAIN d THEN d[k] ELSE default

\* price bands of PRICE_CRITERIA (man-yen per tsubo)
PriceExcellent == 10
PriceVeryGood  == 15
PriceGood      == 20
PriceFair      == 25
PricePoor      == 30

\* band edges exclusive
EvaluatePrice_Exclusive(d) ==
  LET price_numeric   == Get(d, "price_numeric", 0)
      land_area_tsubo == Get(d, "land_area_tsubo", 0)
  IN  IF price_numeric <= 0 \/ land_area_tsubo <= 0 THEN 50
      ELSE IF price_numeric < PriceExcellent * land_area_tsubo THEN 100
      ELSE IF price_numeric < PriceVeryGood * land_area_tsubo THEN 80
      ELSE IF price_numeric < PriceGood * land_area_tsubo THEN 60
      ELSE IF price_numeric < PriceFair * land_area_tsubo THEN 40
      ELSE IF price_numeric < PricePoor * land_area_tsubo THEN 20
      ELSE 10

\* _evaluate_price; price / tsubo <= c is price <= c * tsubo for tsubo > 0.
\* A None price or area raises TypeError in the comparison and the handler
\* returns the same 50 as for a value <= 0.
EvaluatePrice(d) ==
  LET price_numeric   == Get(d, "price_numeric", 0)
      land_area_tsubo == Get(d, "land_area_tsubo", 0)
  IN  IF price_numeric <= 0 \/ land_area_tsubo <= 0 THEN 50
      ELSE IF price_numeric <= PriceExcellent * land_area_tsubo THEN 100
      ELSE IF price_numeric <= PriceVeryGood * land_area_tsubo THEN 80
      ELSE IF price_numeric <= PriceGood * land_area_tsubo THEN 60
      ELSE IF price_numeric <= PriceFair * land_area_tsubo THEN 40
      ELSE IF price_numeric <= PricePoor * land_area_tsubo THEN 20
      ELSE 10

\* PREMIUM_AREAS, each name a one-token text (the first two and the last of
\* the list; the others behave alike)
PremiumAreas == {<<"chuo-machi">>, <<"funai-machi">>, <<"hagiwara">>}

\* Python's `needle in text` on strings: text is a sequence of characters
\* (or tokens), needle occurs in it as a contiguous run
Contains(text, needle) ==
  \E i \in 1..(Len(text) - Len(needle) + 1) :
    SubSeq(text, i, i + Len(needle) - 1) = needle

\* no premium areas
EvaluateLocation_NoPremium(d) ==
  LET walk_minutes == Get(d, "walk_minutes", NULL)
      station_score ==
        IF walk_minutes = NULL THEN 30
        ELSE IF walk_minutes <= 5 THEN 100
        ELSE IF walk_minutes <= 10 THEN 80
        ELSE IF walk_minutes <= 15 THEN 60
        ELSE IF walk_minutes <= 20 THEN 40
        ELSE IF walk_minutes <= 30 THEN 20
        ELSE 10
  IN  (50 + station_score) \div 2

\* _evaluate_location: mean of the area score and the station score; both
\* are multiples of 10, so the mean is a whole number
EvaluateLocation(d) ==
  LET address      == Get(d, "address", <<>>)
      walk_minutes == Get(d, "walk_minutes", NULL)
      area_score ==
        IF \E premium_area \in PremiumAreas : Contains(address, premium_area)
          THEN 100 ELSE 50
      station_score ==
        IF walk_minutes = NULL THEN 30
        ELSE IF walk_minutes <= 5 THEN 100
        ELSE IF walk_minutes <= 10 THEN 80
        ELSE IF walk_minutes <= 15 THEN 60
        ELSE IF walk_minutes <= 20 THEN 40
        ELSE IF walk_minutes <= 30 THEN 20
        ELSE 10
  IN  (area_score + station_score) \div 2

\* returns 50 when the area is missing
EvaluateArea_Default50(d) ==
  LET land_area_tsubo == Get(d, "land_area_tsubo", 0)
  IN  IF land_area_tsubo <= 0 THEN 50
      ELSE IF land_area_tsubo >= 100 THEN 100
      ELSE IF land_area_tsubo >= 70 THEN 80
      ELSE IF land_area_tsubo >= 50 THEN 60
      ELSE IF land_area_tsubo >= 30 THEN 40
      ELSE IF land_area_tsubo >= 20 THEN 20
      ELSE 10

\* _evaluate_area with AREA_CRITERIA; a None area raises TypeError in the
\* comparison and the handler returns the same 30 as for area <= 0
EvaluateArea(d) ==
  LET land_area_tsubo == Get(d, "land_area_tsubo", 0)
  IN  IF land_area_tsubo <= 0 THEN 30
      ELSE IF land_area_tsubo >= 100 THEN 100
      ELSE IF land_area_tsubo >= 70 THEN 80
      ELSE IF land_area_tsubo >= 50 THEN 60
      ELSE IF land_area_tsubo >= 30 THEN 40
      ELSE IF land_area_tsubo >= 20 THEN 20
      ELSE 10

\* INVESTMENT_CRITERIA, thresholds scanned from the highest down
CoverageScore(building_coverage) ==
  IF building_coverage >= 80 THEN 100
  ELSE IF building_coverage >= 70 THEN 80
  ELSE IF building_coverage >= 60 THEN 60
  ELSE IF building_coverage >= 50 THEN 40
  ELSE 50

RatioScore(floor_area_ratio) ==
  IF floor_area_ratio >= 400 THEN 100
  ELSE IF floor_area_ratio >= 300 THEN 80
  ELSE IF floor_area_ratio >= 200 THEN 60
  ELSE IF floor_area_ratio >= 150 THEN 40
  ELSE 50

\* the keywords of the zoning test, character by character
Shogyo        == <<"sho", "gyo">>
KinrinShogyo  == <<"kin", "rin", "sho", "gyo">>
JunKogyo      == <<"jun", "ko", "gyo">>
Dai1ShuJukyo  == <<"dai", "ichi", "shu", "ju", "kyo">>
Dai2ShuJukyo  == <<"dai", "ni", "shu", "ju", "kyo">>
Dai1ShuTeiso  == <<"dai", "ichi", "shu", "tei", "so">>
Dai2ShuTeiso  == <<"dai", "ni", "shu", "tei", "so">>

\* the zoning test of _evaluate_investment, an if/elif chain
UsageScore(usage_area) ==
  IF Contains(usage_area, Shogyo) THEN 90
  ELSE IF Contains(usage_area, KinrinShogyo) THEN 80
  ELSE IF Contains(usage_area, JunKogyo) THEN 70
  ELSE IF Contains(usage_area, Dai1ShuJukyo) \/ Contains(usage_area, Dai2ShuJukyo)
    THEN 60
  ELSE IF Contains(usage_area, Dai1ShuTeiso) \/ Contains(usage_area, Dai2ShuTeiso)
    THEN 40
  ELSE 50

RECURSIVE SumSeq(_)
SumSeq(scores) ==
  IF scores = <<>> THEN 0 ELSE Head(scores) + SumSeq(Tail(scores))

\* every component collected, whatever the value
InvestmentScores_CollectAll(d) ==
  <<CoverageScore(Get(d, "building_coverage", 0)),
    RatioScore(Get(d, "floor_area_ratio", 0)),
    UsageScore(Get(d, "usage_area", <<>>))>>

\* the list scores of _evaluate_investment
InvestmentScores(d) ==
  LET building_coverage == Get(d, "building_coverage", 0)
      floor_area_ratio  == Get(d, "floor_area_ratio", 0)
      usage_area        == Get(d, "usage_area", <<>>)
  IN  (IF building_coverage > 0
         THEN <<CoverageScore(building_coverage)>> ELSE <<>>)
      \o (IF floor_area_ratio > 0 THEN <<RatioScore(floor_area_ratio)>> ELSE <<>>)
      \o <<UsageScore(usage_area)>>

\* _evaluate_investment in sixths of a point: sum(scores) / len(scores) with
\* one to three scores.  A None coverage or ratio raises TypeError in `> 0`
\* and the handler returns 50.
EvaluateInvestment6(d) ==
  LET scores == InvestmentScores(d)
  IN  IF Get(d, "building_coverage", 0) = NULL
         \/ Get(d, "floor_area_ratio", 0) = NULL
        THEN 6 * 50
        ELSE (6 * SumSeq(scores)) \div Len(scores)

\* RANKING_WEIGHTS in percent
WeightPrice      == 30
WeightLocation   == 30
WeightArea       == 20
WeightInvestment == 20

\* RANK_THRESHOLDS
ThresholdS == 90
ThresholdA == 80
ThresholdB == 70
ThresholdC == 60

\* total_score of calculate_rank in 1/600 of a point (weights are percent,
\* the investment score comes in sixths)
TotalScore600(d) ==
  6 * WeightPrice * EvaluatePrice(d)
  + 6 * WeightLocation * EvaluateLocation(d)
  + 6 * WeightArea * EvaluateArea(d)
  + WeightInvestment * EvaluateInvestment6(d)

\* strict comparison in place of >=
DetermineGrade_Strict(total600) ==
  IF total600 > 600 * ThresholdS THEN "S"
  ELSE IF total600 > 600 * ThresholdA THEN "A"
  ELSE IF total600 > 600 * ThresholdB THEN "B"
  ELSE IF total600 > 600 * ThresholdC THEN "C"
  ELSE "D"

\* _determine_grade on a total given in 1/600 of a point
DetermineGrade(total600) ==
  IF total600 >= 600 * ThresholdS THEN "S"
  ELSE IF total600 >= 600 * ThresholdA THEN "A"
  ELSE IF total600 >= 600 * ThresholdB THEN "B"
  ELSE IF total600 >= 600 * ThresholdC THEN "C"
  ELSE "D"

\* round(x, 2) of x = n / unit, as hundredths of a point: the nearest
\* hundredth (n * 100 / unit never lies halfway for the values that occur)
Round2(n, unit) == (2 * 100 * n + unit) \div (2 * unit)

\* calculate_rank: the grade is determined from the unrounded total;
\* ranking_score and investment_evaluation are in hundredths of a point,
\* the other sub-scores are whole points
CalculateRank(d) ==
  LET total_score == TotalScore600(d)
  IN  [ranking_score |-> Round2(total_score, 600),
       ranking_grade |-> DetermineGrade(total_score),
       price_evaluation |-> EvaluatePrice(d),
       location_evaluation |-> EvaluateLocation(d),
       area_evaluation |-> EvaluateArea(d),
       investment_evaluation |-> Round2(EvaluateInvestment6(d), 6)]

\* dict.update: keys of e win
DictUpdate(d, e) == e @@ d

\* What _scrape_property_detail extracts from the page of u.  The page
\* always shows the area; priced says whether its price text matches the
\* price pattern, and only then is price_numeric a key of the dict.
TsuboOnPage == 100
PriceOnPage == 1000
ScrapedData(u, priced, now) ==
  LET base == [property_id |-> ExtractPropertyId(u),
               scraped_at |-> now,
               land_area_tsubo |-> TsuboOnPage]
  IN  IF priced THEN [price_numeric |-> PriceOnPage] @@ base ELSE base

\* --------------------------------------------------------------- the store

RowsWithId(table, pid) == {row \in table : row["property_id"] = pid}

UniqueViolated_NoConstraint(table, pid) == FALSE

\* UNIQUE constraint on properties.property_id: an INSERT of a property_id
\* that is already in the table raises IntegrityError
UniqueViolated(table, pid) == RowsWithId(table, pid) # {}

ColumnDefault_Inactive(c, rowid, now) ==
  CASE c = "id" -> rowid
    [] c = "scraped_at" -> now
    [] c = "updated_at" -> now
    [] c = "is_active" -> 0
    [] OTHER -> NULL

\* column defaults of CREATE TABLE properties
ColumnDefault(c, rowid, now) ==
  CASE c = "id" -> rowid
    [] c = "scraped_at" -> now
    [] c = "updated_at" -> now
    [] c = "is_active" -> 1
    [] OTHER -> NULL

\* INSERT INTO properties (keys of d) VALUES (values of d)
InsertRow(table, d, now) ==
  table \cup
    {[c \in Columns |->
        IF c \in DOMAIN d THEN d[c]
        ELSE ColumnDefault(c, Cardinality(table) + 1, now)]}

\* the columns the UPDATE of upsert_property assigns from the dict
UpdateFields(d) == DOMAIN d \ {"property_id"}

\* INSERT OR REPLACE in place of the UPDATE
UpdateRow_Replace(table, d, pid, now) ==
  InsertRow({row \in table : row["property_id"] # pid}, d, now)

\* UPDATE properties SET <key = value for key in d>, updated_at = now
\* WHERE property_id = pid
UpdateRow(table, d, pid, now) ==
  {IF row["property_id"] = pid
     THEN [c \in Columns |->
             IF c = "updated_at" THEN now
             ELSE IF c \in UpdateFields(d) THEN d[c]
             ELSE row[c]]
     ELSE row : row \in table}

ToDeactivate_SkipEmpty(table, ids) ==
  IF ids # {}
    THEN {row \in table : row["property_id"] \notin ids /\ row["is_active"] = 1}
    ELSE {}

\* WHERE clause of deactivate_old_properties
ToDeactivate(table, ids) ==
  IF ids # {}
    THEN {row \in table : row["property_id"] \notin ids /\ row["is_active"] = 1}
    ELSE {row \in table : row["is_active"] = 1}

\* DELETE in place of the UPDATE
DeactivateRows_Delete(table, ids, now) == table \ ToDeactivate(table, ids)

\* the WHERE clause without `AND is_active = 1`
DeactivateRows_NoActiveTest(table, ids, now) ==
  {IF row["property_id"] \notin ids
     THEN [row EXCEPT !["is_active"] = 0, !["updated_at"] = now]
     ELSE row : row \in table}

\* UPDATE properties SET is_active = 0, updated_at = now WHERE ...
DeactivateRows(table, ids, now) ==
  {IF row \in ToDeactivate(table, ids)
     THEN [row EXCEPT !["is_active"] = 0, !["updated_at"] = now]
     ELSE row : row \in table}

NoData == [property_id |-> NULL]

\* SCRAPING_CONFIG["max_pages"]
DefaultMaxPages == 10
NoCall == [op |-> "none"]
ZeroStats ==
  [total_properties |-> 0, new_properties |-> 0,
   updated_properties |-> 0, errors |-> 0]

\* ------------------------------------------------------------------- Init

Init ==
  /\ properties = {}
  /\ scraping_logs = <<>>
  /\ clock = 0
  /\ pc = [p \in Procs |-> "idle"]
  /\ property_urls = [p \in Procs |-> {}]
  /\ remaining = [p \in Procs |-> {}]
  /\ url = [p \in Procs |-> 0]
  /\ property_data = [p \in Procs |-> NoData]
  /\ existing = [p \in Procs |-> FALSE]
  /\ active_property_ids = [p \in Procs |-> {}]
  /\ stats = [p \in Procs |-> ZeroStats]
  /\ deactivated = [p \in Procs |-> 0]
  /\ reconciled = [p \in Procs |-> <<>>]
  /\ outcome = [p \in Procs |-> <<>>]
  /\ enumeration_error = [p \in Procs |-> FALSE]
  /\ logged = [p \in Procs |-> <<>>]
  /\ page = [p \in Procs |-> 1]
  /\ collected_urls = [p \in Procs |-> <<>>]
  /\ max_pages = [p \in Procs |-> DefaultMaxPages]
  /\ list_fetches = [p \in Procs |-> 0]
  /\ since_fetch = [p \in Procs |-> "none"]
  /\ ret = NoCall

\* ---------------------------------------------------------------- actions

\* scrape_all has returned or raised
Ended == {"done", "raised", "log_raised"}

\* A new process is started: __init__ zeroes self.stats and scrape_all reads
\* start_time.  The clock stops at lastClock; again says whether the
\* program is started again after it has ended.
NewProcess(p, lastClock, again) ==
  /\ pc[p] = "idle" \/ (again /\ pc[p] \in Ended)
  /\ clock < lastClock
  /\ clock' = clock + 1
  /\ url' = [url EXCEPT ![p] = 0]
  /\ property_data' = [property_data EXCEPT ![p] = NoData]
  /\ existing' = [existing EXCEPT ![p] = FALSE]
  /\ active_property_ids' = [active_property_ids EXCEPT ![p] = {}]
  /\ stats' = [stats EXCEPT ![p] = ZeroStats]
  /\ deactivated' = [deactivated EXCEPT ![p] = 0]
  /\ reconciled' = [reconciled EXCEPT ![p] = <<>>]
  /\ outcome' = [outcome EXCEPT ![p] = <<>>]
  /\ logged' = [logged EXCEPT ![p] = <<>>]
  /\ UNCHANGED <<properties, scraping_logs, ret>>

\* _get_property_urls, as one step, returns the deduplicated URLs it has
\* collected from the list pages.  The site lists URLs of listable.  An
\* exception while a list page is fetched or parsed is caught inside the
\* while loop, which breaks: the URLs collected so far are returned like a
\* complete list.  The loop ends behind the fetch of its last page, without
\* a sleep.
StartRun(p, lastClock, listable, again) ==
  /\ NewProcess(p, lastClock, again)
  /\ \E listed \in SUBSET listable, pageError \in BOOLEAN :
       /\ property_urls' = [property_urls EXCEPT ![p] = listed]
       /\ remaining' = [remaining EXCEPT ![p] = listed]
       /\ enumeration_error' = [enumeration_error EXCEPT ![p] = pageError]
  /\ pc' = [pc EXCEPT ![p] = "loop"]
  /\ since_fetch' = [since_fetch EXCEPT ![p] = "fetched"]
  /\ UNCHANGED enumeration_vars

\* SeleniumAthomeScraper: _init_driver raises inside the try of scrape_all
\* before any page is fetched
InitDriverRaises(p, lastClock, again) ==
  /\ NewProcess(p, lastClock, again)
  /\ property_urls' = [property_urls EXCEPT ![p] = {}]
  /\ remaining' = [remaining EXCEPT ![p] = {}]
  /\ enumeration_error' = [enumeration_error EXCEPT ![p] = FALSE]
  /\ pc' = [pc EXCEPT ![p] = "handler"]
  /\ since_fetch' = [since_fetch EXCEPT ![p] = "none"]
  /\ UNCHANGED enumeration_vars

\* Loop body up to the SELECT of upsert_property: the detail page is fetched
\* and extracted, calculate_rank scores it, property_data.update(rank_info),
\* and upsert_property runs SELECT * FROM properties WHERE property_id = ?.
\* Fetching and scoring touch nothing but the process's own variables, so
\* they form one step with the SELECT.
ScrapeDetail(p) ==
  /\ pc[p] = "loop"
  /\ \E u \in remaining[p], priced \in BOOLEAN :
       LET data == ScrapedData(u, priced, clock)
       IN  /\ url' = [url EXCEPT ![p] = u]
           /\ remaining' = [remaining EXCEPT ![p] = @ \ {u}]
           /\ property_data' =
                [property_data EXCEPT ![p] = DictUpdate(data, CalculateRank(data))]
           /\ existing' =
                [existing EXCEPT
                   ![p] = RowsWithId(properties, data["property_id"]) # {}]
  /\ pc' = [pc EXCEPT ![p] = "upsert_write"]
  /\ since_fetch' = [since_fetch EXCEPT ![p] = "fetched"]
  /\ UNCHANGED enumeration_vars
  /\ UNCHANGED <<properties, scraping_logs, clock, property_urls,
                 active_property_ids, stats, deactivated, reconciled,
                 outcome, enumeration_error, logged, ret>>

\* _scrape_property_detail catches the fetch or extraction exception and
\* returns None: `if property_data:` skips the body, the loop sleeps for
\* request_delay and goes on.
ScrapeDetailNone(p) ==
  /\ pc[p] = "loop"
  /\ \E u \in remaining[p] :
       /\ remaining' = [remaining EXCEPT ![p] = @ \ {u}]
       /\ outcome' = [outcome EXCEPT ![p] = (u :> "none") @@ @]
  /\ since_fetch' = [since_fetch EXCEPT ![p] = "slept"]
  /\ UNCHANGED enumeration_vars
  /\ UNCHANGED <<properties, scraping_logs, clock, pc, property_urls, url,
                 property_data, existing, active_property_ids, stats,
                 deactivated, reconciled, enumeration_error, logged, ret>>

\* back at the head of the for loop: url, property_data and the locals of
\* upsert_property are dead until the next iteration assigns them
NextIteration(p) ==
  /\ pc' = [pc EXCEPT ![p] = "loop"]
  /\ remaining' = remaining
  /\ url' = [url EXCEPT ![p] = 0]
  /\ property_data' = [property_data EXCEPT ![p] = NoData]
  /\ existing' = [existing EXCEPT ![p] = FALSE]

\* break in place of continue
HandleListingError_Break(p) ==
  /\ stats' = [stats EXCEPT ![p] = [@ EXCEPT !.errors = @ + 1]]
  /\ pc' = [pc EXCEPT ![p] = "loop"]
  /\ remaining' = [remaining EXCEPT ![p] = {}]
  /\ url' = [url EXCEPT ![p] = 0]
  /\ property_data' = [property_data EXCEPT ![p] = NoData]
  /\ existing' = [existing EXCEPT ![p] = FALSE]

\* except Exception in the for loop: count the error, continue
HandleListingError(p) ==
  /\ stats' = [stats EXCEPT ![p] = [@ EXCEPT !.errors = @ + 1]]
  /\ NextIteration(p)

\* assignment in place of append
AppendId_Overwrite(ids, pid) == {pid}

\* active_property_ids.append(property_id); only membership of the list is
\* ever used (NOT IN, emptiness), so the list is kept as a set
AppendId(ids, pid) == ids \cup {pid}

\* the counters count ids in place of calls: a listing whose id the run has
\* appended before is stored but not counted again
UpsertWrite_CountIds(p) ==
  LET d == property_data[p]
      pid == d["property_id"]
      counted == pid \in active_property_ids[p]
  IN  /\ pc[p] = "upsert_write"
      /\ IF existing[p]
           THEN properties' = UpdateRow(properties, d, pid, clock)
           ELSE /\ ~UniqueViolated(properties, pid)
                /\ properties' = InsertRow(properties, d, clock)
      /\ active_property_ids' =
           [active_property_ids EXCEPT ![p] = AppendId(@, pid)]
      /\ stats' =
           [stats EXCEPT
              ![p] = IF counted THEN @
                     ELSE IF existing[p]
                       THEN [@ EXCEPT !.updated_properties = @ + 1,
                                      !.total_properties = @ + 1]
                       ELSE [@ EXCEPT !.new_properties = @ + 1,
                                      !.total_properties = @ + 1]]
      /\ outcome' =
           [outcome EXCEPT
              ![p] = (url[p] :> (IF existing[p] THEN "updated" ELSE "new")) @@ @]
      /\ NextIteration(p)
      /\ since_fetch' = [since_fetch EXCEPT ![p] = "slept"]
      /\ UNCHANGED enumeration_vars
      /\ UNCHANGED <<scraping_logs, clock, property_urls, deactivated,
                     reconciled, enumeration_error, logged, ret>>

\* upsert_property: the UPDATE or INSERT commits and returns; scrape_all
\* appends the id, counts the listing and sleeps for request_delay.
UpsertWrite(p) ==
  LET d == property_data[p]
      pid == d["property_id"]
  IN  /\ pc[p] = "upsert_write"
      /\ IF existing[p]
           THEN properties' = UpdateRow(properties, d, pid, clock)
           ELSE /\ ~UniqueViolated(properties, pid)
                /\ properties' = InsertRow(properties, d, clock)
      /\ active_property_ids' =
           [active_property_ids EXCEPT ![p] = AppendId(@, pid)]
      /\ stats' =
           [stats EXCEPT
              ![p] = IF existing[p]
                       THEN [@ EXCEPT !.updated_properties = @ + 1,
                                      !.total_properties = @ + 1]
                       ELSE [@ EXCEPT !.new_properties = @ + 1,
                                      !.total_properties = @ + 1]]
      /\ outcome' =
           [outcome EXCEPT
              ![p] = (url[p] :> (IF existing[p] THEN "updated" ELSE "new")) @@ @]
      /\ NextIteration(p)
      /\ since_fetch' = [since_fetch EXCEPT ![p] = "slept"]
      /\ UNCHANGED enumeration_vars
      /\ UNCHANGED <<scraping_logs, clock, property_urls, deactivated,
                     reconciled, enumeration_error, logged, ret>>

\* the store swallows the exception and returns (False, property_id): the
\* listing is counted like an update
UpsertRaises_Counted(p) ==
  /\ pc[p] = "upsert_write"
  /\ outcome' = [outcome EXCEPT ![p] = (url[p] :> "error") @@ @]
  /\ active_property_ids' =
       [active_property_ids EXCEPT
          ![p] = AppendId(@, property_data[p]["property_id"])]
  /\ stats' = [stats EXCEPT ![p] = [@ EXCEPT !.updated_properties = @ + 1,
                                            !.total_properties = @ + 1]]
  /\ NextIteration(p)
  /\ UNCHANGED <<enumeration_vars, since_fetch>>
  /\ UNCHANGED <<properties, scraping_logs, clock, property_urls,
                 deactivated, reconciled, enumeration_error, logged, ret>>

\* upsert_property raises: the INSERT hits the UNIQUE constraint, or SQLite
\* reports an OperationalError (locked database, disk error).  The with block
\* rolls back; scrape_all's per-listing handler counts the error and
\* continues with the next URL.
UpsertRaises(p) ==
  /\ pc[p] = "upsert_write"
  /\ \E operationalError \in BOOLEAN :
       \/ operationalError
       \/ ~existing[p] /\ UniqueViolated(properties, property_data[p]["property_id"])
  /\ outcome' = [outcome EXCEPT ![p] = (url[p] :> "error") @@ @]
  /\ HandleListingError(p)
  /\ UNCHANGED <<enumeration_vars, since_fetch>>
  /\ UNCHANGED <<properties, scraping_logs, clock, property_urls,
                 active_property_ids, deactivated, reconciled,
                 enumeration_error, logged, ret>>

\* After the loop: deactivate_old_properties(active_property_ids)
Deactivate(p) ==
  /\ pc[p] = "loop"
  /\ remaining[p] = {}
  /\ properties' = DeactivateRows(properties, active_property_ids[p], clock)
  /\ deactivated' =
       [deactivated EXCEPT
          ![p] = Cardinality(ToDeactivate(properties, active_property_ids[p]))]
  /\ reconciled' = [reconciled EXCEPT ![p] = Append(@, active_property_ids[p])]
  /\ pc' = [pc EXCEPT ![p] = "log"]
  /\ since_fetch' = [since_fetch EXCEPT ![p] = "none"]
  /\ UNCHANGED enumeration_vars
  /\ UNCHANGED <<scraping_logs, clock, property_urls, remaining, url,
                 property_data, existing, active_property_ids, stats,
                 outcome, enumeration_error, logged, ret>>

\* deactivate_old_properties raises (OperationalError): the with block rolls
\* back and the exception reaches the outer handler of scrape_all
DeactivateRaises(p) ==
  /\ pc[p] = "loop"
  /\ remaining[p] = {}
  /\ reconciled' = [reconciled EXCEPT ![p] = Append(@, active_property_ids[p])]
  /\ pc' = [pc EXCEPT ![p] = "handler"]
  /\ since_fetch' = [since_fetch EXCEPT ![p] = "none"]
  /\ UNCHANGED enumeration_vars
  /\ UNCHANGED <<properties, scraping_logs, clock, property_urls, remaining,
                 url, property_data, existing, active_property_ids, stats,
                 deactivated, outcome, enumeration_error, logged, ret>>

LogColumns ==
  {"total_properties", "new_properties", "updated_properties",
   "deactivated_properties", "errors", "status"}

\* column defaults of CREATE TABLE scraping_logs
LogColumnDefault(c) == IF c = "status" THEN "" ELSE 0

\* INSERT OR REPLACE on a one-row log
LogScraping_Replace(log, log_data) ==
  <<[c \in LogColumns |->
       IF c \in DOMAIN log_data THEN log_data[c] ELSE LogColumnDefault(c)]>>

\* log_scraping: INSERT INTO scraping_logs (keys of log_data) VALUES (...)
LogScraping(log, log_data) ==
  Append(log,
         [c \in LogColumns |->
            IF c \in DOMAIN log_data THEN log_data[c] ELSE LogColumnDefault(c)])

\* the dict without the count of deactivated records
CompletedLogData_NoDeactivated(p) ==
  [total_properties |-> stats[p].total_properties,
   new_properties |-> stats[p].new_properties,
   updated_properties |-> stats[p].updated_properties,
   errors |-> stats[p].errors,
   status |-> "completed"]

\* the dict scrape_all logs after the loop and the reconciliation
CompletedLogData(p) ==
  [total_properties |-> stats[p].total_properties,
   new_properties |-> stats[p].new_properties,
   updated_properties |-> stats[p].updated_properties,
   deactivated_properties |-> deactivated[p],
   errors |-> stats[p].errors,
   status |-> "completed"]

\* the dict the outer handler of scrape_all logs
ErrorLogData(p) ==
  [total_properties |-> stats[p].total_properties,
   new_properties |-> stats[p].new_properties,
   updated_properties |-> stats[p].updated_properties,
   errors |-> stats[p].errors + 1,
   status |-> "error"]

\* log_scraping of the completed run, then scrape_all returns self.stats
LogCompleted(p) ==
  /\ pc[p] = "log"
  /\ scraping_logs' = LogScraping(scraping_logs, CompletedLogData(p))
  /\ logged' = [logged EXCEPT ![p] = Append(@, CompletedLogData(p))]
  /\ pc' = [pc EXCEPT ![p] = "done"]
  /\ UNCHANGED <<enumeration_vars, since_fetch>>
  /\ UNCHANGED <<properties, clock, property_urls, remaining, url,
                 property_data, existing, active_property_ids, stats,
                 deactivated, reconciled, outcome, enumeration_error, ret>>

\* log_scraping of the completed run raises: nothing is inserted and the
\* exception reaches the outer handler
LogCompletedRaises(p) ==
  /\ pc[p] = "log"
  /\ logged' = [logged EXCEPT ![p] = Append(@, CompletedLogData(p))]
  /\ pc' = [pc EXCEPT ![p] = "handler"]
  /\ UNCHANGED <<enumeration_vars, since_fetch>>
  /\ UNCHANGED <<properties, scraping_logs, clock, property_urls, remaining,
                 url, property_data, existing, active_property_ids, stats,
                 deactivated, reconciled, outcome, enumeration_error, ret>>

\* except Exception of scrape_all: log the run with status 'error', then
\* raise the caught exception again
LogError(p) ==
  /\ pc[p] = "handler"
  /\ scraping_logs' = LogScraping(scraping_logs, ErrorLogData(p))
  /\ logged' = [logged EXCEPT ![p] = Append(@, ErrorLogData(p))]
  /\ pc' = [pc EXCEPT ![p] = "raised"]
  /\ UNCHANGED <<enumeration_vars, since_fetch>>
  /\ UNCHANGED <<properties, clock, property_urls, remaining, url,
                 property_data, existing, active_property_ids, stats,
                 deactivated, reconciled, outcome, enumeration_error, ret>>

\* log_scraping raises inside the handler: nothing is inserted, `raise` is
\* not reached and the exception of the log write leaves scrape_all
LogErrorRaises(p) ==
  /\ pc[p] = "handler"
  /\ logged' = [logged EXCEPT ![p] = Append(@, ErrorLogData(p))]
  /\ pc' = [pc EXCEPT ![p] = "log_raised"]
  /\ UNCHANGED <<enumeration_vars, since_fetch>>
  /\ UNCHANGED <<properties, scraping_logs, clock, property_urls, remaining,
                 url, property_data, existing, active_property_ids, stats,
                 deactivated, reconciled, outcome, enumeration_error, ret>>

Step(p, lastClock, listable, again) ==
  \/ StartRun(p, lastClock, listable, again)
  \/ InitDriverRaises(p, lastClock, again)
  \/ ScrapeDetail(p)
  \/ ScrapeDetailNone(p)
  \/ UpsertWrite(p)
  \/ UpsertRaises(p)
  \/ Deactivate(p)
  \/ DeactivateRaises(p)
  \/ LogCompleted(p)
  \/ LogCompletedRaises(p)
  \/ LogError(p)
  \/ LogErrorRaises(p)

\* one crawl process after the other
Next == Step("cron", MaxClock, Urls, TRUE)

Spec == Init /\ [][Next]_vars

NextLong == Step("cron", MaxLongClock, Urls, TRUE)

SpecLong == Init /\ [][NextLong]_vars

\* a site with fewer listings, crawled by one process after the other
NextSeq == Step("cron", MaxSeqClock, 1..NumSeqUrls, TRUE)

SpecSeq == Init /\ [][NextSeq]_vars

\* two URLs of the list lead to the same listing: _extract_property_id gives
\* both the same id
TwinUrls == {u \in 1..3 : ExtractPropertyId(u) = 1}

\* a site that lists one listing under two URLs, crawled by one process
\* after the other
NextTwin == Step("cron", MaxTwinClock, TwinUrls, TRUE)

SpecTwin == Init /\ [][NextTwin]_vars

\* two crawl processes, each started once, on the same database file
NextConc == \E p \in Procs : Step(p, Cardinality(Procs), 1..NumConcUrls, FALSE)

SpecConc == Init /\ [][NextConc]_vars

\* ------------------------------------------- the list pages, page by page

\* values of scraping_config['max_pages']: a number of pages, or None for
\* all pages
PageCaps == {NULL} \cup (1..MaxPages)

\* `max_pages and ...`: None and 0 are false
CapGiven(cap) == cap # NULL /\ cap # 0

\* page numbers and fetch counts behind PageLimit are not told apart
PageLimit == MaxPages + 1
UpTo(n, limit) == IF n < limit THEN n ELSE limit

\* the detail links one list page can hold, in page order (a URL may be
\* linked twice, and no link may pass the '/detail/' test)
PageLinks ==
  UNION {[1..n -> 1..NumPageUrls] : n \in 0..2}

RECURSIVE SetToSeq(_)
SetToSeq(set) ==
  IF set = {} THEN <<>>
  ELSE LET x == CHOOSE x \in set : TRUE
       IN  <<x>> \o SetToSeq(set \ {x})

\* list(set(property_urls)); the order of the result is not used
ListOfSet(list) == SetToSeq({list[i] : i \in DOMAIN list})

\* scrape_all calls _get_property_urls: page = 1, property_urls = []
BeginEnumeration(p, lastClock, again) ==
  /\ NewProcess(p, lastClock, again)
  /\ \E cap \in PageCaps : max_pages' = [max_pages EXCEPT ![p] = cap]
  /\ page' = [page EXCEPT ![p] = 1]
  /\ collected_urls' = [collected_urls EXCEPT ![p] = <<>>]
  /\ list_fetches' = [list_fetches EXCEPT ![p] = 0]
  /\ since_fetch' = [since_fetch EXCEPT ![p] = "none"]
  /\ property_urls' = [property_urls EXCEPT ![p] = {}]
  /\ remaining' = [remaining EXCEPT ![p] = {}]
  /\ enumeration_error' = [enumeration_error EXCEPT ![p] = FALSE]
  /\ pc' = [pc EXCEPT ![p] = "enumerate"]

\* the break of the while loop and the return: the list is deduplicated
\* and scrape_all starts its for loop on it
ReturnUrls(p, list) ==
  /\ collected_urls' = [collected_urls EXCEPT ![p] = ListOfSet(list)]
  /\ property_urls' = [property_urls EXCEPT ![p] = {list[i] : i \in DOMAIN list}]
  /\ remaining' = [remaining EXCEPT ![p] = {list[i] : i \in DOMAIN list}]
  /\ pc' = [pc EXCEPT ![p] = "loop"]

\* a list page is fetched, has property links and a next button, and the
\* cap is not reached: the links that pass the test are collected
FetchListPage(p) ==
  /\ pc[p] = "enumerate"
  /\ ~(CapGiven(max_pages[p]) /\ page[p] >= max_pages[p])
  /\ \E links \in PageLinks :
       /\ Len(collected_urls[p]) + Len(links) <= MaxCollected
       /\ collected_urls' = [collected_urls EXCEPT ![p] = @ \o links]
  /\ list_fetches' = [list_fetches EXCEPT ![p] = UpTo(@ + 1, PageLimit)]
  /\ since_fetch' = [since_fetch EXCEPT ![p] = "fetched"]
  /\ pc' = [pc EXCEPT ![p] = "page_sleep"]
  /\ UNCHANGED <<properties, scraping_logs, clock, property_urls, remaining,
                 url, property_data, existing, active_property_ids, stats,
                 deactivated, reconciled, outcome, enumeration_error, logged,
                 page, max_pages, ret>>

\* page += 1; time.sleep(request_delay)
PageSleep(p) ==
  /\ pc[p] = "page_sleep"
  /\ page' = [page EXCEPT ![p] = UpTo(@ + 1, PageLimit)]
  /\ since_fetch' = [since_fetch EXCEPT ![p] = "slept"]
  /\ pc' = [pc EXCEPT ![p] = "enumerate"]
  /\ UNCHANGED <<properties, scraping_logs, clock, property_urls, remaining,
                 url, property_data, existing, active_property_ids, stats,
                 deactivated, reconciled, outcome, enumeration_error, logged,
                 collected_urls, max_pages, list_fetches, ret>>

\* the fetch of the last list page: the fetch or the parse raises (caught,
\* break), or the page has no property links (break), or it has links and
\* no next button or the cap is reached (break)
FetchLastListPage(p) ==
  /\ pc[p] = "enumerate"
  /\ \/ /\ enumeration_error' = [enumeration_error EXCEPT ![p] = TRUE]
        /\ ReturnUrls(p, collected_urls[p])
     \/ /\ UNCHANGED enumeration_error
        /\ ReturnUrls(p, collected_urls[p])
     \/ /\ UNCHANGED enumeration_error
        /\ \E links \in PageLinks, next_button \in BOOLEAN :
             /\ ~next_button \/ (CapGiven(max_pages[p]) /\ page[p] >= max_pages[p])
             /\ Len(collected_urls[p]) + Len(links) <= MaxCollected
             /\ ReturnUrls(p, collected_urls[p] \o links)
  /\ list_fetches' = [list_fetches EXCEPT ![p] = UpTo(@ + 1, PageLimit)]
  /\ since_fetch' = [since_fetch EXCEPT ![p] = "fetched"]
  /\ UNCHANGED <<properties, scraping_logs, clock, url, property_data,
                 existing, active_property_ids, stats, deactivated, reconciled,
                 outcome, logged, page, max_pages, ret>>

\* a crawl whose list pages are fetched one by one
NextPages ==
  \/ BeginEnumeration("cron", MaxPagesClock, TRUE)
  \/ FetchListPage("cron")
  \/ PageSleep("cron")
  \/ FetchLastListPage("cron")
  \/ ScrapeDetail("cron")
  \/ ScrapeDetailNone("cron")
  \/ UpsertWrite("cron")
  \/ UpsertRaises("cron")
  \/ Deactivate("cron")
  \/ DeactivateRaises("cron")
  \/ LogCompleted("cron")
  \/ LogCompletedRaises("cron")
  \/ LogError("cron")
  \/ LogErrorRaises("cron")

SpecPages == Init /\ [][NextPages]_vars

\* the process goes on as long as it has a step to take
SpecPagesFair == SpecPages /\ WF_vars(NextPages)

\* ------------------------------------------------- direct calls of the store

\* the dicts a caller hands to upsert_property: a scraped and scored record,
\* stamped now or at an earlier time (a caller may hand in the same dict again)
ClientRecords ==
  {LET data == ScrapedData(u, priced, t)
   IN  DictUpdate(data, CalculateRank(data)) :
     u \in Urls, priced \in BOOLEAN, t \in 0..clock}

\* upsert_property(d), SELECT and write with no other writer in between
ClientUpsert ==
  \E d \in ClientRecords :
    LET pid == d["property_id"]
        found == RowsWithId(properties, pid) # {}
    IN  /\ IF found
             THEN properties' = UpdateRow(properties, d, pid, clock)
             ELSE /\ ~UniqueViolated(properties, pid)
                  /\ properties' = InsertRow(properties, d, clock)
        /\ ret' = [op |-> "upsert", data |-> d, is_new |-> ~found,
                   property_id |-> pid]
        /\ UNCHANGED <<enumeration_vars, since_fetch>>
        /\ UNCHANGED <<scraping_logs, clock, pc, property_urls, remaining, url,
                       property_data, existing, active_property_ids, stats,
                       deactivated, reconciled, outcome, enumeration_error,
                       logged>>

\* deactivate_old_properties(ids)
ClientDeactivate ==
  \E ids \in SUBSET PropertyIds :
    /\ properties' = DeactivateRows(properties, ids, clock)
    /\ ret' = [op |-> "deactivate", ids |-> ids,
               count |-> Cardinality(ToDeactivate(properties, ids))]
    /\ UNCHANGED <<enumeration_vars, since_fetch>>
    /\ UNCHANGED <<scraping_logs, clock, pc, property_urls, remaining, url,
                   property_data, existing, active_property_ids, stats,
                   deactivated, reconciled, outcome, enumeration_error,
                   logged>>

\* time passes between two calls
Tick ==
  /\ clock < MaxStoreClock
  /\ clock' = clock + 1
  /\ UNCHANGED <<enumeration_vars, since_fetch>>
  /\ UNCHANGED <<properties, scraping_logs, pc, property_urls, remaining, url,
                 property_data, existing, active_property_ids, stats,
                 deactivated, reconciled, outcome, enumeration_error, logged,
                 ret>>

\* rank_filter of get_active_properties: None, or a list of grades
NoFilter == [given |-> FALSE]
RankFilters ==
  {NoFilter} \cup
  {[given |-> TRUE, grades |-> g] :
     g \in {{}, {"S", "A"}, {"S", "A", "B"}, {"D"}}}

\* `if rank_filter:` is false for None and for an empty list
Truthy(rank_filter) == rank_filter.given /\ rank_filter.grades # {}

\* SELECT * FROM properties WHERE is_active = 1 [AND ranking_grade IN (...)]
SelectActive(table, rank_filter) ==
  {row \in table :
     /\ row["is_active"] = 1
     /\ Truthy(rank_filter) => row["ranking_grade"] \in rank_filter.grades}

\* ORDER BY ranking_score DESC, scraped_at DESC: r1 may stand before r2
OrderedBefore(r1, r2) ==
  \/ r1["ranking_score"] > r2["ranking_score"]
  \/ /\ r1["ranking_score"] = r2["ranking_score"]
     /\ r1["scraped_at"] >= r2["scraped_at"]

\* the orders in which SQLite may return rows: each row once, sorted; rows
\* with equal keys come in any order
Ordered(rows) ==
  {result \in [1..Cardinality(rows) -> rows] :
     /\ \A i, j \in DOMAIN result : i # j => result[i] # result[j]
     /\ \A i, j \in DOMAIN result : i < j => OrderedBefore(result[i], result[j])}

\* get_active_properties(rank_filter)
ClientQuery ==
  \E rank_filter \in RankFilters :
    \E result \in Ordered(SelectActive(properties, rank_filter)) :
      /\ ret' = [op |-> "query", rank_filter |-> rank_filter, rows |-> result]
      /\ UNCHANGED <<enumeration_vars, since_fetch>>
      /\ UNCHANGED <<properties, scraping_logs, clock, pc, property_urls,
                     remaining, url, property_data, existing,
                     active_property_ids, stats, deactivated, reconciled,
                     outcome, enumeration_error, logged>>

NextStore == ClientUpsert \/ ClientDeactivate \/ Tick

SpecStore == Init /\ [][NextStore]_vars

\* a client that also reads the store
NextQuery == ClientUpsert \/ ClientDeactivate \/ ClientQuery \/ Tick

SpecQuery == Init /\ [][NextQuery]_vars

\* ------------------------------------------------- direct calls of the ranker

NoKey == <<>>

\* zoning names as a listing page shows them, character by character
ZoningTexts ==
  {<<>>,
   <<"sho", "gyo", "chi", "iki">>,
   <<"kin", "rin", "sho", "gyo", "chi", "iki">>,
   <<"jun", "ko", "gyo", "chi", "iki">>,
   <<"ko", "gyo", "chi", "iki">>,
   <<"dai", "ichi", "shu", "ju", "kyo", "chi", "iki">>,
   <<"dai", "ni", "shu", "ju", "kyo", "chi", "iki">>,
   <<"dai", "ichi", "shu", "tei", "so", "ju", "kyo", "sen", "yo", "chi", "iki">>,
   <<"dai", "ni", "shu", "chu", "taka", "so", "ju", "kyo", "sen", "yo", "chi", "iki">>}

Missing(key, values) == {NoKey} \cup {(key :> v) : v \in values}

\* totals handed to _determine_grade, in 1/600 of a point: the thresholds,
\* the hundredth below each, and the ends of the scale
GradeTotals ==
  {0, 600 * 100}
  \cup {600 * t : t \in {ThresholdS, ThresholdA, ThresholdB, ThresholdC}}
  \cup {600 * t - 6 : t \in {ThresholdS, ThresholdA, ThresholdB, ThresholdC}}

\* the caller of the ranker holds d
Holds(d) == property_data = [p \in Procs |-> IF p = "cron" THEN d ELSE NoData]

\* dicts handed to calculate_rank, first family: every price up to
\* MaxRankPrice, None (NULL) and 0, on small, missing and None areas, with
\* every zoning text
HoldsPriceSweepInput ==
  \E price \in Missing("price_numeric", NULL..MaxRankPrice),
     area \in Missing("land_area_tsubo", {NULL, 0, 1, 2, 100}),
     address \in Missing("address", {<<"oita-shi", "chuo-machi", "1-chome">>,
                                    <<"oita-shi", "nakahanda">>}),
     usage \in Missing("usage_area", ZoningTexts) :
    Holds(price @@ area @@ address @@ usage @@ [property_id |-> 1])

\* second family: one value in every band of every criterion, so that every
\* combination of sub-scores occurs; the price is given per tsubo
HoldsBandInput ==
  \E per_tsubo \in {0, 10, 15, 20, 25, 30, 31},
     area \in Missing("land_area_tsubo", {1, 20, 30, 50, 70, 100}),
     address \in Missing("address", {<<"oita-shi", "hagiwara", "2-chome">>}),
     walk \in Missing("walk_minutes", {5, 10, 15, 20, 30, 31}),
     coverage \in Missing("building_coverage", {NULL, 40, 50, 60, 70, 80}),
     ratio \in Missing("floor_area_ratio", {100, 150, 200, 300, 400}),
     usage \in Missing("usage_area",
                       {<<"sho", "gyo", "chi", "iki">>,
                        <<"jun", "ko", "gyo", "chi", "iki">>,
                        <<"dai", "ni", "shu", "ju", "kyo", "chi", "iki">>,
                        <<"dai", "ichi", "shu", "tei", "so", "ju", "kyo",
                          "sen", "yo", "chi", "iki">>}) :
    Holds((IF per_tsubo = 0 THEN NoKey
           ELSE [price_numeric |-> per_tsubo * Get(area, "land_area_tsubo", 1)])
          @@ area @@ address @@ walk @@ coverage @@ ratio @@ usage
          @@ [property_id |-> 1])

\* third family: coverage and floor-area ratio on, between and beside the
\* thresholds of INVESTMENT_CRITERIA, with every zoning text
HoldsInvestmentInput ==
  \E coverage \in Missing("building_coverage",
                          {0, 1, 49, 50, 59, 60, 69, 70, 79, 80, 100}),
     ratio \in Missing("floor_area_ratio",
                       {0, 1, 149, 150, 199, 200, 299, 300, 399, 400, 500}),
     usage \in Missing("usage_area", ZoningTexts) :
    Holds(coverage @@ ratio @@ usage
          @@ [property_id |-> 1, price_numeric |-> 1000, land_area_tsubo |-> 100])

\* sample_properties of tests/test_demo.py (the keys the ranker and the
\* store read)
SampleProperties ==
  <<[property_id |-> 1, price_numeric |-> 1000, land_area_tsubo |-> 100,
     address |-> <<"oita-ken", "oita-shi", "chuo-machi", "1-2-3">>,
     walk_minutes |-> 5, building_coverage |-> 80, floor_area_ratio |-> 400,
     usage_area |-> <<"sho", "gyo", "chi", "iki">>],
    [property_id |-> 2, price_numeric |-> 800, land_area_tsubo |-> 50,
     address |-> <<"oita-ken", "oita-shi", "hagiwara", "4-5-6">>,
     walk_minutes |-> 15, building_coverage |-> 60, floor_area_ratio |-> 200,
     usage_area |-> <<"dai", "ichi", "shu", "ju", "kyo", "chi", "iki">>],
    [property_id |-> 3, price_numeric |-> 600, land_area_tsubo |-> 30,
     address |-> <<"oita-ken", "oita-shi", "akeno-kita", "1-2-3">>,
     walk_minutes |-> 30, building_coverage |-> 50, floor_area_ratio |-> 100,
     usage_area |-> <<"dai", "ichi", "shu", "tei", "so", "ju", "kyo", "sen",
                      "yo", "chi", "iki">>]>>

\* fourth family: a caller holds the list of sample listings, as the test
\* has them or with the second one moved to another address
HoldsSampleProperties ==
  \E address \in {<<"oita-ken", "oita-shi", "hagiwara", "4-5-6">>,
                   <<"oita-ken", "oita-shi", "akeno-kita", "4-5-6">>} :
    Holds([sample_properties |->
             [SampleProperties EXCEPT ![2] = [@ EXCEPT !.address = address]]])

\* a caller holds a dict to rank, or a total to grade
InitRank ==
  /\ properties = {}
  /\ scraping_logs = <<>>
  /\ clock = 0
  /\ pc = [p \in Procs |-> "idle"]
  /\ property_urls = [p \in Procs |-> {}]
  /\ remaining = [p \in Procs |-> {}]
  /\ url = [p \in Procs |-> 0]
  /\ \/ HoldsPriceSweepInput
     \/ HoldsBandInput
     \/ HoldsInvestmentInput
     \/ HoldsSampleProperties
     \/ \E total_score \in GradeTotals : Holds([total_score |-> total_score])
  /\ existing = [p \in Procs |-> FALSE]
  /\ active_property_ids = [p \in Procs |-> {}]
  /\ stats = [p \in Procs |-> ZeroStats]
  /\ deactivated = [p \in Procs |-> 0]
  /\ reconciled = [p \in Procs |-> <<>>]
  /\ outcome = [p \in Procs |-> <<>>]
  /\ enumeration_error = [p \in Procs |-> FALSE]
  /\ logged = [p \in Procs |-> <<>>]
  /\ page = [p \in Procs |-> 1]
  /\ collected_urls = [p \in Procs |-> <<>>]
  /\ max_pages = [p \in Procs |-> DefaultMaxPages]
  /\ list_fetches = [p \in Procs |-> 0]
  /\ since_fetch = [p \in Procs |-> "none"]
  /\ ret = NoCall

\* rank_info = calculate_rank(property_data)
RankCall ==
  /\ ret.op = "none"
  /\ "total_score" \notin DOMAIN property_data["cron"]
  /\ "sample_properties" \notin DOMAIN property_data["cron"]
  /\ ret' = [op |-> "rank", rank_info |-> CalculateRank(property_data["cron"])]
  /\ UNCHANGED <<enumeration_vars, since_fetch>>
  /\ UNCHANGED <<properties, scraping_logs, clock, pc, property_urls,
                 remaining, url, property_data, existing, active_property_ids,
                 stats, deactivated, reconciled, outcome, enumeration_error,
                 logged>>

\* rank_grade = _determine_grade(total_score)
DetermineGradeCall ==
  /\ ret.op = "none"
  /\ "total_score" \in DOMAIN property_data["cron"]
  /\ ret' = [op |-> "grade",
             grade |-> DetermineGrade(property_data["cron"]["total_score"])]
  /\ UNCHANGED <<enumeration_vars, since_fetch>>
  /\ UNCHANGED <<properties, scraping_logs, clock, pc, property_urls,
                 remaining, url, property_data, existing, active_property_ids,
                 stats, deactivated, reconciled, outcome, enumeration_error,
                 logged>>

\* the loop of test_ranking: the next sample listing is ranked,
\* prop.update(rank_info), and the listing is upserted
RankSample ==
  /\ "sample_properties" \in DOMAIN property_data["cron"]
  /\ ret.op \in {"none", "samples"}
  /\ LET samples == property_data["cron"]["sample_properties"]
         rank_infos == IF ret.op = "none" THEN <<>> ELSE ret.rank_infos
     IN  /\ Len(rank_infos) < Len(samples)
         /\ LET prop == samples[Len(rank_infos) + 1]
                rank_info == CalculateRank(prop)
                d == [k \in (DOMAIN prop \cup DOMAIN rank_info) \cap Columns |->
                        DictUpdate(prop, rank_info)[k]]
                pid == prop["property_id"]
            IN  /\ ret' = [op |-> "samples",
                           rank_infos |-> Append(rank_infos, rank_info)]
                /\ IF RowsWithId(properties, pid) # {}
                     THEN properties' = UpdateRow(properties, d, pid, clock)
                     ELSE properties' = InsertRow(properties, d, clock)
  /\ UNCHANGED <<enumeration_vars, since_fetch>>
  /\ UNCHANGED <<scraping_logs, clock, pc, property_urls, remaining, url,
                 property_data, existing, active_property_ids, stats,
                 deactivated, reconciled, outcome, enumeration_error, logged>>

NextRank == RankCall \/ DetermineGradeCall \/ RankSample

SpecRank == InitRank /\ [][NextRank]_vars

\* ---------------------------------------------- direct calls of the extractor

\* URLs are texts over these characters, behind the origin
Digits    == {"1", "2"}
PathChars == {"/", "a"} \cup Digits
Origin    == <<"https://www.athome.co.jp">>

\* url as the text handed to the scraper
UrlText(u) == Origin \o u.path \o u.query

\* the last position of the run of digits that starts at position i of text
DigitRunEnd(text, i) ==
  CHOOSE j \in i..Len(text) :
    /\ \A k \in i..j : text[k] \in Digits
    /\ j = Len(text) \/ text[j + 1] \notin Digits

\* the first element of a non-empty set of positions
First(positions) == CHOOSE i \in positions : \A j \in positions : i <= j

HexDigits ==
  <<"0", "1", "2", "3", "4", "5", "6", "7", "8", "9", "a", "b", "c", "d", "e", "f">>

CharCode(c) ==
  CASE c = "/" -> 47
    [] c = "1" -> 49
    [] c = "2" -> 50
    [] c = "?" -> 63
    [] c = "a" -> 97
    [] OTHER -> 104

RECURSIVE Checksum(_)
Checksum(text) ==
  IF text = <<>> THEN 7
  ELSE (31 * Checksum(SubSeq(text, 1, Len(text) - 1))
        + CharCode(text[Len(text)])) % 1048576

RECURSIVE ToHex(_, _)
ToHex(n, len) ==
  IF len = 0 THEN <<>>
  ELSE Append(ToHex(n \div 16, len - 1), HexDigits[(n % 16) + 1])

\* hashlib.md5(url.encode()).hexdigest()[:10]: md5 is stood for by a short
\* checksum of the text; like the digest it is a function of the whole text,
\* written in lowercase hex, and texts may collide
Md5Hex10(text) == ToHex(Checksum(text), 10)

\* AthomeScraper._extract_property_id: re.search(r'/(\d+)', path) on the
\* path of the URL, else the hash of the URL
AthomeExtractPropertyId(u) ==
  LET path == u.path
      hits == {i \in 1..(Len(path) - 1) :
                 path[i] = "/" /\ path[i + 1] \in Digits}
  IN  IF hits # {}
        THEN <<"athome_">>
             \o SubSeq(path, First(hits) + 1, DigitRunEnd(path, First(hits) + 1))
        ELSE <<"athome_">> \o Md5Hex10(UrlText(u))

\* SeleniumAthomeScraper._extract_property_id:
\* re.search(r'/(\d+)(?:/|$|\?)', url) on the whole URL, else the hash.
\* \d+ cannot give back a digit (a digit would follow), so a match is a
\* whole run of digits between a slash and a slash, a question mark or the end
SeleniumExtractPropertyId(u) ==
  LET text == UrlText(u)
      hits == {i \in 1..(Len(text) - 1) :
                 /\ text[i] = "/"
                 /\ text[i + 1] \in Digits
                 /\ LET end == DigitRunEnd(text, i + 1)
                    IN  end = Len(text) \/ text[end + 1] \in {"/", "?"}}
  IN  IF hits # {}
        THEN <<"athome_">>
             \o SubSeq(text, First(hits) + 1, DigitRunEnd(text, First(hits) + 1))
        ELSE <<"athome_">> \o Md5Hex10(text)

\* --- the field patterns of _scrape_property_detail, on texts whose
\* characters are numerals, ",", ".", " " and romanised signs: "sq" is the
\* square-metre sign, "tsubo", "man" "en", "toho", "fun" and "%" the units

Numerals == <<"0", "1", "2", "3", "4", "5", "6", "7", "8", "9">>
IsNumeral(c) == \E i \in DOMAIN Numerals : Numerals[i] = c
NumeralValue(c) == (CHOOSE i \in DOMAIN Numerals : Numerals[i] = c) - 1

\* [\d,]+
IsCommaNumber(group) ==
  /\ group # <<>>
  /\ \A k \in DOMAIN group : IsNumeral(group[k]) \/ group[k] = ","

\* \d+
IsDigits(group) ==
  /\ group # <<>>
  /\ \A k \in DOMAIN group : IsNumeral(group[k])

\* [\d,]+\.?\d*
IsDecimalNumber(group) ==
  \E a \in 1..Len(group) :
    /\ IsCommaNumber(SubSeq(group, 1, a))
    /\ LET rest == SubSeq(group, a + 1, Len(group))
       IN  \/ rest = <<>>
           \/ \A k \in DOMAIN rest : IsNumeral(rest[k])
           \/ /\ rest[1] = "."
              /\ \A k \in 2..Len(rest) : IsNumeral(rest[k])

\* the group of a pattern, by the name of its character class:
\* "comma_number" is [\d,]+, "digits" is \d+ and "decimal" is [\d,]+\.?\d*
IsGroup(class, group) ==
  CASE class = "comma_number" -> IsCommaNumber(group)
    [] class = "digits" -> IsDigits(group)
    [] class = "decimal" -> IsDecimalNumber(group)

\* \s* between positions a and b
SpaceRun(text, a, b) == \A k \in a..b : text[k] = " "

StartsAt(text, i, word) ==
  /\ i + Len(word) - 1 <= Len(text)
  /\ SubSeq(text, i, i + Len(word) - 1) = word

\* the matches of  prefix \s* (group) \s* term  in text (no leading \s*
\* when there is no prefix), as <<start, first, last>> with the group at
\* first..last.  The character behind a group is a space or begins the
\* term, so a start has at most one match and backtracking finds no other.
Matches(text, prefix, class, terms) ==
  {m \in (1..Len(text)) \X (1..Len(text)) \X (1..Len(text)) :
     /\ m[1] <= m[2]
     /\ m[2] <= m[3]
     /\ StartsAt(text, m[1], prefix)
     /\ IF prefix = <<>> THEN m[2] = m[1]
        ELSE /\ m[2] >= m[1] + Len(prefix)
             /\ SpaceRun(text, m[1] + Len(prefix), m[2] - 1)
     /\ IsGroup(class, SubSeq(text, m[2], m[3]))
     /\ \E t \in (m[3] + 1)..Len(text) :
          /\ SpaceRun(text, m[3] + 1, t - 1)
          /\ \E term \in terms : StartsAt(text, t, term)}

\* re.search: the match with the leftmost start
Leftmost(matches) ==
  CHOOSE m \in matches : \A other \in matches : m[1] <= other[1]

Group1(text, m) == SubSeq(text, m[2], m[3])

NotComma(c) == c # ","

\* int() and float() of group.replace(',', '') raise ValueError unless a
\* numeral is left
Parses(group) == \E k \in DOMAIN group : IsNumeral(group[k])

RECURSIVE IntValue(_)
IntValue(numerals) ==
  IF numerals = <<>> THEN 0
  ELSE 10 * IntValue(SubSeq(numerals, 1, Len(numerals) - 1))
       + NumeralValue(numerals[Len(numerals)])

\* float(group.replace(',', '')) in hundredths; the texts carry at most two
\* decimals
FloatValue100(group) ==
  LET text == SelectSeq(group, NotComma)
      dots == {i \in DOMAIN text : text[i] = "."}
  IN  IF dots = {} THEN 100 * IntValue(text)
      ELSE LET dot == First(dots)
               decimals == SubSeq(SubSeq(text, dot + 1, Len(text)) \o <<"0", "0">>,
                                  1, 2)
           IN  100 * IntValue(SubSeq(text, 1, dot - 1)) + IntValue(decimals)

\* the m2 pattern of AthomeScraper, r'([\d,]+\.?\d*)\s*m2|㎡': either a
\* number before "m2", or the sign alone, which leaves group(1) None.  The
\* result is <<"none">>, <<"sign">> or <<"group", text of group(1)>>.
AthomeM2Match(text) ==
  LET numbers == Matches(text, <<>>, "decimal", {<<"m", "2">>})
      signs   == {i \in DOMAIN text : text[i] = "sq"}
  IN  IF numbers = {} /\ signs = {} THEN <<"none">>
      ELSE IF signs = {} THEN <<"group", Group1(text, Leftmost(numbers))>>
      ELSE IF numbers = {} THEN <<"sign">>
      ELSE IF Leftmost(numbers)[1] < First(signs)
        THEN <<"group", Group1(text, Leftmost(numbers))>>
        ELSE <<"sign">>

\* the m2 pattern of SeleniumAthomeScraper, r'([\d,]+\.?\d*)\s*(?:m2|㎡)'
SeleniumM2Match(text) ==
  LET numbers == Matches(text, <<>>, "decimal", {<<"m", "2">>, <<"sq">>})
  IN  IF numbers = {} THEN <<"none">>
      ELSE <<"group", Group1(text, Leftmost(numbers))>>

\* a field read by pattern: <<"absent">> when the element or the match is
\* missing, <<"raises">> when the conversion raises, else <<"value", v>>
FieldOf(soup, element, prefix, class, terms) ==
  IF element \notin DOMAIN soup THEN <<"absent">>
  ELSE LET matches == Matches(soup[element], prefix, class, terms)
       IN  IF matches = {} THEN <<"absent">>
           ELSE LET group == Group1(soup[element], Leftmost(matches))
                IN  IF Parses(group) THEN <<"value", FloatValue100(group) \div 100,
                                            FloatValue100(group)>>
                    ELSE <<"raises">>

\* land_area_m2 of the page under the given m2 pattern
M2FieldOf(soup, m2_match) ==
  IF "area" \notin DOMAIN soup \/ m2_match[1] = "none" THEN <<"absent">>
  ELSE IF m2_match[1] = "sign" THEN <<"raises">>
  ELSE IF Parses(m2_match[2])
    THEN <<"value", FloatValue100(m2_match[2]) \div 100, FloatValue100(m2_match[2])>>
    ELSE <<"raises">>

With(field, key, index) ==
  IF field[1] = "value" THEN (key :> field[index]) ELSE NoKey

\* the body of _scrape_property_detail behind the fetch.  soup holds the
\* text of each element the selectors find.  price_numeric, walk_minutes,
\* building_coverage and floor_area_ratio are whole numbers, land_area_m2
\* and land_area_tsubo are in hundredths (m2 / 3.305785 cut off there).  An
\* exception anywhere is caught by the one handler, which returns None.
ExtractFields(soup, property_id, m2_match, now) ==
  LET price    == FieldOf(soup, "price", <<>>, "comma_number", {<<"man", "en">>})
      m2       == M2FieldOf(soup, m2_match)
      tsubo    == FieldOf(soup, "area", <<>>, "decimal", {<<"tsubo">>})
      walk     == FieldOf(soup, "station", <<"toho">>, "digits", {<<"fun">>})
      coverage == FieldOf(soup, "kenpei", <<>>, "digits", {<<"%">>})
      ratio    == FieldOf(soup, "yoseki", <<>>, "digits", {<<"%">>})
      converted ==
        IF m2[1] = "value"
          THEN [land_area_tsubo |-> (m2[3] * 1000000) \div 3305785]
          ELSE NoKey
  IN  IF soup.fetch_raises \/ price[1] = "raises" \/ m2[1] = "raises"
         \/ tsubo[1] = "raises"
        THEN [returned |-> FALSE]
        ELSE [returned |-> TRUE,
              data |->
                With(price, "price_numeric", 2)
                @@ With(tsubo, "land_area_tsubo", 3) @@ converted
                @@ With(m2, "land_area_m2", 3)
                @@ With(walk, "walk_minutes", 2)
                @@ With(coverage, "building_coverage", 2)
                @@ With(ratio, "floor_area_ratio", 2)
                @@ [property_id |-> property_id,
                    scraped_at |-> now,
                    title |-> Get(soup, "title", <<"taitoru-nashi">>),
                    address |-> Get(soup, "address", <<>>),
                    usage_area |-> Get(soup, "youto", <<>>)]]

\* the paths of at most MaxPathLen characters
Paths ==
  UNION {{<<"/">> \o [i \in 1..n |-> tail[i]] : tail \in [1..n -> PathChars]} :
           n \in 0..(MaxPathLen - 1)}

\* a caller holds a URL: a path, with or without a query string
HoldsUrl ==
  \E path \in Paths, query \in {<<>>, <<"?", "a", "/", "1">>} :
    Holds([url |-> [path |-> path, query |-> query]])

\* the detail URL of the page a caller holds
DetailUrl == [path |-> <<"/", "a", "/", "1", "2", "/">>, query |-> <<>>]

PriceTexts ==
  {<<"1", ",", "2", "0", "0", "man", "en">>,
   <<"3", "0", "0", " ", "man", "en">>,
   <<",", "man", "en">>,
   <<"o-sodan">>}

AreaTexts ==
  {<<"1", "2", ".", "5", "sq">>,
   <<"1", "2", ".", "5", " ", "m", "2">>,
   <<"1", "2", "m", "2", "(", "3", ".", "6", "tsubo", ")">>,
   <<"1", "2", ".", "5", "sq", "(", "3", ".", "7", "8", "tsubo", ")">>,
   <<"3", "tsubo">>,
   <<",", "m", "2">>,
   <<",", "tsubo">>,
   <<"fumei">>}

\* a caller holds a detail page: the texts of the elements the selectors
\* find, and whether fetching it raises
HoldsPage ==
  \E fetch_raises \in BOOLEAN,
     price \in Missing("price", PriceTexts),
     area \in Missing("area", AreaTexts),
     station \in Missing("station", {<<"oita-eki", " ", "toho", "5", "fun">>,
                                    <<"basu", "2", "0", "fun">>}),
     kenpei \in Missing("kenpei", {<<"6", "0", "%">>}),
     yoseki \in Missing("yoseki", {<<"2", "0", "0", " ", "%">>}),
     address \in Missing("address", {<<"oita-shi", "hagiwara">>}),
     youto \in Missing("youto", {<<"sho", "gyo", "chi", "iki">>}) :
    Holds([page |-> price @@ area @@ station @@ kenpei @@ yoseki @@ address
                    @@ youto
                    @@ [fetch_raises |-> fetch_raises,
                        title |-> <<"uri-tochi">>]])

InitExtract ==
  /\ properties = {}
  /\ scraping_logs = <<>>
  /\ clock = 0
  /\ pc = [p \in Procs |-> "idle"]
  /\ property_urls = [p \in Procs |-> {}]
  /\ remaining = [p \in Procs |-> {}]
  /\ url = [p \in Procs |-> 0]
  /\ HoldsUrl \/ HoldsPage
  /\ existing = [p \in Procs |-> FALSE]
  /\ active_property_ids = [p \in Procs |-> {}]
  /\ stats = [p \in Procs |-> ZeroStats]
  /\ deactivated = [p \in Procs |-> 0]
  /\ reconciled = [p \in Procs |-> <<>>]
  /\ outcome = [p \in Procs |-> <<>>]
  /\ enumeration_error = [p \in Procs |-> FALSE]
  /\ logged = [p \in Procs |-> <<>>]
  /\ page = [p \in Procs |-> 1]
  /\ collected_urls = [p \in Procs |-> <<>>]
  /\ max_pages = [p \in Procs |-> DefaultMaxPages]
  /\ list_fetches = [p \in Procs |-> 0]
  /\ since_fetch = [p \in Procs |-> "none"]
  /\ ret = NoCall

\* AthomeScraper._extract_property_id(url)
ExtractIdCall ==
  /\ "url" \in DOMAIN property_data["cron"]
  /\ ret' = [op |-> "extract_id", scraper |-> "requests",
             property_id |-> AthomeExtractPropertyId(property_data["cron"]["url"])]
  /\ UNCHANGED <<enumeration_vars, since_fetch>>
  /\ UNCHANGED <<properties, scraping_logs, clock, pc, property_urls,
                 remaining, url, property_data, existing, active_property_ids,
                 stats, deactivated, reconciled, outcome, enumeration_error,
                 logged>>

\* SeleniumAthomeScraper._extract_property_id(url)
SeleniumExtractIdCall ==
  /\ "url" \in DOMAIN property_data["cron"]
  /\ ret' = [op |-> "extract_id", scraper |-> "selenium",
             property_id |->
               SeleniumExtractPropertyId(property_data["cron"]["url"])]
  /\ UNCHANGED <<enumeration_vars, since_fetch>>
  /\ UNCHANGED <<properties, scraping_logs, clock, pc, property_urls,
                 remaining, url, property_data, existing, active_property_ids,
                 stats, deactivated, reconciled, outcome, enumeration_error,
                 logged>>

\* AthomeScraper._scrape_property_detail(url)
ScrapeDetailCall ==
  /\ "page" \in DOMAIN property_data["cron"]
  /\ LET soup == property_data["cron"]["page"]
     IN  ret' = [op |-> "scrape_detail", scraper |-> "requests"]
                @@ ExtractFields(soup, AthomeExtractPropertyId(DetailUrl),
                                 IF "area" \in DOMAIN soup
                                   THEN AthomeM2Match(soup["area"])
                                   ELSE <<"none">>,
                                 clock)
  /\ UNCHANGED <<enumeration_vars, since_fetch>>
  /\ UNCHANGED <<properties, scraping_logs, clock, pc, property_urls,
                 remaining, url, property_data, existing, active_property_ids,
                 stats, deactivated, reconciled, outcome, enumeration_error,
                 logged>>

\* SeleniumAthomeScraper._scrape_property_detail(url)
SeleniumScrapeDetailCall ==
  /\ "page" \in DOMAIN property_data["cron"]
  /\ LET soup == property_data["cron"]["page"]
     IN  ret' = [op |-> "scrape_detail", scraper |-> "selenium"]
                @@ ExtractFields(soup, SeleniumExtractPropertyId(DetailUrl),
                                 IF "area" \in DOMAIN soup
                                   THEN SeleniumM2Match(soup["area"])
                                   ELSE <<"none">>,
                                 clock)
  /\ UNCHANGED <<enumeration_vars, since_fetch>>
  /\ UNCHANGED <<properties, scraping_logs, clock, pc, property_urls,
                 remaining, url, property_data, existing, active_property_ids,
                 stats, deactivated, reconciled, outcome, enumeration_error,
                 logged>>

NextExtract ==
  \/ ExtractIdCall
  \/ SeleniumExtractIdCall
  \/ ScrapeDetailCall
  \/ SeleniumScrapeDetailCall

SpecExtract == InitExtract /\ [][NextExtract]_vars

\* ------------------------------------------------------------------ claims

Stored(table) == {row["property_id"] : row \in table}
Active(table) == {row \in table : row["is_active"] = 1}
SameRow(table, row) == {r \in table : r["id"] = row["id"]}

\* ids of the URLs whose upsert returned during the current run of p
UpsertedIds(p) ==
  {ExtractPropertyId(u) :
     u \in {x \in DOMAIN outcome[p] : outcome[p][x] \in {"new", "updated"}}}

FailedUrls(p) ==
  {x \in DOMAIN outcome[p] : outcome[p][x] \in {"none", "error"}}

\* C1: once a run has completed, a stored record is active if and only if
\* its id was upserted during that run; a record deactivated by an earlier
\* run and upserted again is active again.
C1_ActiveIffUpsertedInLastRun ==
  pc["cron"] = "done" =>
    \A row \in properties :
      (row["is_active"] = 1) <=> (row["property_id"] \in UpsertedIds("cron"))

\* a direct call of deactivate_old_properties takes this step
IsDeactivateCall == ret'.op = "deactivate" /\ clock' = clock

\* C2: deactivate_old_properties(ids) switches off exactly the records that
\* were active and whose id is not in ids, and returns their number (all
\* active records for an empty list, none when ids holds every stored id).
C2_DeactivateExactly ==
  [][IsDeactivateCall =>
       LET ids == ret'.ids
           hit == {row \in properties :
                     row["is_active"] = 1 /\ row["property_id"] \notin ids}
       IN  /\ Cardinality(properties') = Cardinality(properties)
           /\ \A row \in properties :
                \E row2 \in SameRow(properties', row) :
                  row2["is_active"] = IF row \in hit THEN 0 ELSE row["is_active"]
           /\ ret'.count = Cardinality(hit)
           /\ ids = {} => ret'.count = Cardinality(Active(properties))
           /\ Stored(properties) \subseteq ids => ret'.count = 0]_vars

\* a call that deactivated some records and left another one active
C2_Witness ==
  /\ ret.op = "deactivate"
  /\ ret.count >= 1
  /\ Active(properties) # {}

\* C3: at most one record has any given property_id, also when the upserts
\* of two runs interleave between the SELECT and the INSERT/UPDATE.
C3_PropertyIdUnique ==
  \A r1 \in properties, r2 \in properties :
    r1["property_id"] = r2["property_id"] => r1 = r2

\* a process saw no record in its SELECT, and another one has inserted the
\* id before the first one writes
C3_Witness ==
  \E p \in Procs :
    /\ pc[p] = "upsert_write"
    /\ ~existing[p]
    /\ RowsWithId(properties, property_data[p]["property_id"]) # {}

\* a direct call of upsert_property takes this step
IsUpsertCall == ret'.op = "upsert" /\ clock' = clock

\* C4: upsert_property returns (isNew, id) with id the record's property_id
\* and isNew true exactly when no record with that id was stored; a new
\* record is inserted active, an existing one is updated and its updated_at
\* refreshed.
C4_UpsertResult ==
  [][IsUpsertCall =>
       LET pid == ret'.data["property_id"]
           before == RowsWithId(properties, pid)
           after == RowsWithId(properties', pid)
       IN  /\ ret'.property_id = pid
           /\ ret'.is_new <=> before = {}
           /\ after # {}
           /\ ret'.is_new =>
                /\ properties \subseteq properties'
                /\ Cardinality(properties') = Cardinality(properties) + 1
                /\ \A row \in after : row["is_active"] = 1
           /\ ~ret'.is_new =>
                /\ Cardinality(properties') = Cardinality(properties)
                /\ {row["id"] : row \in after} = {row["id"] : row \in before}
                /\ \A row \in after : row["updated_at"] = clock]_vars

\* an update has returned isNew = false at a later time than the insert
C4_Witness ==
  /\ ret.op = "upsert"
  /\ ~ret.is_new
  /\ clock >= 1
  /\ \E row \in properties :
       row["property_id"] = ret.property_id /\ row["updated_at"] = clock

\* the stored record carries every value of the dict d
Carries(row, d) == \A c \in DOMAIN d : row[c] = d[c]

\* C5: upserting the identical record a second time adds no record and
\* leaves id, is_active and every extracted and scored field of the stored
\* record unchanged; only updated_at advances.
C5_UpsertIdempotent ==
  [][IsUpsertCall =>
       LET d == ret'.data
           before == RowsWithId(properties, d["property_id"])
       IN  (before # {} /\ \A row \in before : Carries(row, d)) =>
             /\ Cardinality(properties') = Cardinality(properties)
             /\ \A row \in before :
                  \E row2 \in SameRow(properties', row) :
                    /\ \A c \in Columns \ {"updated_at"} : row2[c] = row[c]
                    /\ row2["updated_at"] = clock
                    /\ row2["updated_at"] >= row["updated_at"]]_vars

\* a record stamped earlier has been upserted again onto a deactivated row
\* that carries it
C5_Witness ==
  /\ ret.op = "upsert"
  /\ ~ret.is_new
  /\ ret.data["scraped_at"] < clock
  /\ \E row \in properties :
       /\ Carries(row, ret.data)
       /\ row["is_active"] = 0
       /\ row["updated_at"] = clock

\* process p, inside scrape_all, gets a result from upsert_property that
\* says the record existed
IsUpdateOf(p) ==
  /\ pc[p] = "upsert_write"
  /\ stats'[p].updated_properties = stats[p].updated_properties + 1

MutableColumns == {"price_numeric", "land_area_tsubo", "price_evaluation"}

\* C6: an upsert of an existing id overwrites all mutable fields: a field
\* the new record does not carry does not keep its earlier value.
C6_UpdateOverwritesAllMutableFields ==
  [][\A p \in Procs :
       IsUpdateOf(p) =>
         \A row \in RowsWithId(properties', property_data[p]["property_id"]) :
           \A c \in MutableColumns : row[c] = Get(property_data[p], c, NULL)]_vars

\* C7: a record's id and its scraped_at of first sight never change, however
\* often later runs upsert it.
C7_ScrapedAtOfFirstSightKept ==
  [][\A row \in properties :
       \A row2 \in SameRow(properties', row) :
         /\ row2["property_id"] = row["property_id"]
         /\ row2["scraped_at"] = row["scraped_at"]]_vars

\* process p records a failed listing in this step
IsListingFailure(p) ==
  /\ pc[p] \in {"loop", "upsert_write"}
  /\ \E u \in DOMAIN outcome'[p] \ DOMAIN outcome[p] :
       outcome'[p][u] \in {"none", "error"}

\* C8: a failing listing does not abort the run: the store is left as it
\* was, no remaining URL is dropped, and when the loop has ended every URL
\* of the list has been processed.
C8_FailureIsolated ==
  /\ [][\A p \in Procs :
          IsListingFailure(p) =>
            /\ properties' = properties
            /\ active_property_ids'[p] = active_property_ids[p]
            /\ pc'[p] = "loop"
            /\ remaining'[p] \cup DOMAIN outcome'[p] = property_urls[p]]_vars
  /\ [](\A p \in Procs :
          pc[p] \in {"log", "done"} => DOMAIN outcome[p] = property_urls[p])

\* a completed run in which one upsert raised and another listing was stored
C8_Witness ==
  /\ pc["cron"] = "done"
  /\ \E u \in DOMAIN outcome["cron"] : outcome["cron"][u] = "error"
  /\ \E u \in DOMAIN outcome["cron"] : outcome["cron"][u] = "new"

\* C9: every failed listing is counted: when the loop has ended,
\* total_properties + errors is the number of URLs processed.
C9_EveryFailureCounted ==
  \A p \in Procs :
    pc[p] \in {"log", "done"} =>
      stats[p].total_properties + stats[p].errors = Cardinality(property_urls[p])

Last(seq) == seq[Len(seq)]

\* C11: every run that has ended has called log_scraping with the counts
\* accumulated so far; a run that returned was logged as completed, a run
\* that ended with an exception was logged with status "failed".
C11_RunAlwaysLogged ==
  \A p \in Procs :
    pc[p] \in Ended =>
      /\ logged[p] # <<>>
      /\ Last(logged[p]).total_properties = stats[p].total_properties
      /\ Last(logged[p]).new_properties = stats[p].new_properties
      /\ Last(logged[p]).updated_properties = stats[p].updated_properties
      /\ Last(logged[p]).status =
           IF pc[p] = "done" THEN "completed" ELSE "failed"

\* C12: when the enumeration of the list pages has failed, no reconciliation
\* is performed, and the run ends by raising after a failed log entry.
C12_EnumerationFailureAborts ==
  \A p \in Procs :
    enumeration_error[p] =>
      /\ reconciled[p] = <<>>
      /\ pc[p] \in Ended =>
           /\ pc[p] = "raised"
           /\ Last(logged[p]).status = "failed"

\* process p goes from the state from to the state to in this step
Goes(p, from, to) == pc[p] = from /\ pc'[p] = to

C14_RunLogAppendOnly ==
  [][/\ Len(scraping_logs') \in {Len(scraping_logs), Len(scraping_logs) + 1}
     /\ SubSeq(scraping_logs', 1, Len(scraping_logs)) = scraping_logs
     /\ scraping_logs' # scraping_logs =>
          \E p \in Procs :
            /\ pc[p] \in {"log", "handler"}
            /\ Len(logged'[p]) = Len(logged[p]) + 1
     /\ properties' # properties => scraping_logs' = scraping_logs]_vars

\* the log holds the entry of a failed run followed by the entry of a
\* completed run
C14_Witness ==
  /\ Len(scraping_logs) = 2
  /\ scraping_logs[1].status = "error"
  /\ scraping_logs[2].status = "completed"

\* C15: no record is ever removed: the stored ids and the number of rows
\* never shrink, and after a completed run a record whose listing the run
\* did not upsert is still stored, inactive.
C15_NoPhysicalDeletion ==
  /\ [][/\ Stored(properties) \subseteq Stored(properties')
        /\ Cardinality(properties') >= Cardinality(properties)
        /\ {row["id"] : row \in properties} \subseteq
             {row["id"] : row \in properties'}]_vars
  /\ [](pc["cron"] = "done" =>
          \A row \in properties :
            row["property_id"] \notin UpsertedIds("cron") =>
              row["is_active"] = 0)

\* the listing of a stored record has vanished from the site and the run
\* has completed: the record is stored inactive
C15_Witness ==
  /\ pc["cron"] = "done"
  /\ \E row \in properties :
       /\ row["is_active"] = 0
       /\ row["property_id"] \notin UpsertedIds("cron")
       /\ row["updated_at"] > row["scraped_at"]

\* C16: get_active_properties returns each active record once, and only
\* active records; when a filter is given, exactly those whose grade is in
\* the filter; ordered by ranking_score and then scraped_at, descending.
C16_ActiveQueryFiltersAndOrders ==
  ret.op = "query" =>
    LET result == ret.rows
        expected ==
          {row \in properties :
             /\ row["is_active"] = 1
             /\ ret.rank_filter.given =>
                  row["ranking_grade"] \in ret.rank_filter.grades}
    IN  /\ {result[i] : i \in DOMAIN result} = expected
        /\ Len(result) = Cardinality(expected)
        /\ \A i, j \in DOMAIN result :
             i < j =>
               \/ result[i]["ranking_score"] > result[j]["ranking_score"]
               \/ /\ result[i]["ranking_score"] = result[j]["ranking_score"]
                  /\ result[i]["scraped_at"] >= result[j]["scraped_at"]

\* the dict a direct call of calculate_rank was made with
Ranked == property_data["cron"]

HasPositive(d, key) == key \in DOMAIN d /\ d[key] > 0

\* the bands of the claim: inclusive upper edge (man-yen per tsubo), score
PriceBands == <<<<10, 100>>, <<15, 80>>, <<20, 60>>, <<25, 40>>, <<30, 20>>>>

\* the score of the first band whose edge the price per tsubo does not exceed
BandScore(price, tsubo) ==
  LET fits == {i \in DOMAIN PriceBands : price <= PriceBands[i][1] * tsubo}
  IN  IF fits = {} THEN 10
      ELSE PriceBands[CHOOSE i \in fits : \A j \in fits : i <= j][2]

\* C17: for a positive price and a positive area the price score is the
\* score of the band of price / area, edges inclusive, and no input with a
\* higher price per tsubo scores higher.
C17_PriceScoreStepFunction ==
  (ret.op = "rank" /\ HasPositive(Ranked, "price_numeric")
                   /\ HasPositive(Ranked, "land_area_tsubo")) =>
    LET price == Ranked["price_numeric"]
        tsubo == Ranked["land_area_tsubo"]
        score == ret.rank_info.price_evaluation
    IN  /\ score = BandScore(price, tsubo)
        /\ \A price2 \in 1..MaxRankPrice, tsubo2 \in {1, 2, 100} :
             price2 * tsubo >= price * tsubo2 =>
               EvaluatePrice([price_numeric |-> price2,
                              land_area_tsubo |-> tsubo2]) <= score

\* a price of exactly 10 per tsubo has scored 100, on an area of two tsubo
C17_Witness ==
  /\ ret.op = "rank"
  /\ HasPositive(Ranked, "land_area_tsubo")
  /\ Ranked["land_area_tsubo"] = 2
  /\ HasPositive(Ranked, "price_numeric")
  /\ Ranked["price_numeric"] = 10 * Ranked["land_area_tsubo"]
  /\ ret.rank_info.price_evaluation = 100

GradeOfScore(score) ==
  IF score >= 9000 THEN "S"
  ELSE IF score >= 8000 THEN "A"
  ELSE IF score >= 7000 THEN "B"
  ELSE IF score >= 6000 THEN "C"
  ELSE "D"

\* C19: the grade calculate_rank returns is the band of the ranking_score it
\* returns (the total rounded to two decimals), lower bounds inclusive;
\* _determine_grade gives S for 90.00, A for 89.99 and D for 0.
C19_GradeOfRoundedTotal ==
  /\ ret.op = "rank" =>
       ret.rank_info.ranking_grade = GradeOfScore(ret.rank_info.ranking_score)
  /\ ret.op = "grade" =>
       ret.grade = GradeOfScore(Round2(Ranked["total_score"], 600))

\* a record whose total is exactly 90.00 has been graded S
C19_Witness ==
  /\ ret.op = "rank"
  /\ ret.rank_info.ranking_score = 9000
  /\ ret.rank_info.ranking_grade = "S"

\* the zoning score of the claim: the most specific label first
ZoningScore(usage_area) ==
  IF Contains(usage_area, KinrinShogyo) THEN 80
  ELSE IF Contains(usage_area, Shogyo) THEN 90
  ELSE IF Contains(usage_area, JunKogyo) THEN 70
  ELSE IF Contains(usage_area, Dai1ShuJukyo) \/ Contains(usage_area, Dai2ShuJukyo)
    THEN 60
  ELSE IF Contains(usage_area, Dai1ShuTeiso) \/ Contains(usage_area, Dai2ShuTeiso)
    THEN 40
  ELSE 50

\* C20: with no coverage and no floor-area ratio the investment score is the
\* zoning score: 90 for a commercial district, 80 for a neighborhood
\* commercial one, 70 quasi-industrial, 60 residential, 40 low-rise, else 50.
C20_ZoningByMostSpecificLabel ==
  (/\ ret.op = "rank"
   /\ "usage_area" \in DOMAIN Ranked
   /\ "building_coverage" \notin DOMAIN Ranked
   /\ "floor_area_ratio" \notin DOMAIN Ranked) =>
    ret.rank_info.investment_evaluation = 100 * ZoningScore(Ranked["usage_area"])

\* the lookup tables of the claim: threshold, score
CoverageTable == {<<80, 100>>, <<70, 80>>, <<60, 60>>, <<50, 40>>}
RatioTable    == {<<400, 100>>, <<300, 80>>, <<200, 60>>, <<150, 40>>}

\* the score of the highest threshold that is <= value, 50 when there is none
HighestThresholdScore(table, value) ==
  LET reached == {entry \in table : entry[1] <= value}
  IN  IF reached = {} THEN 50
      ELSE (CHOOSE entry \in reached :
              \A other \in reached : other[1] <= entry[1])[2]

\* the components of the claim: <<number collected, their sum>>
Components(d) ==
  LET coverage == Get(d, "building_coverage", 0)
      ratio    == Get(d, "floor_area_ratio", 0)
      with_coverage ==
        IF coverage > 0
          THEN <<1, HighestThresholdScore(CoverageTable, coverage)>>
          ELSE <<0, 0>>
      with_ratio ==
        IF ratio > 0
          THEN <<1, HighestThresholdScore(RatioTable, ratio)>>
          ELSE <<0, 0>>
  IN  <<with_coverage[1] + with_ratio[1] + 1,
        with_coverage[2] + with_ratio[2]
        + UsageScore(Get(d, "usage_area", <<>>))>>

\* C21: for a coverage and a floor-area ratio that are numbers or missing,
\* the investment score is the mean of the collected components (coverage
\* only when > 0, ratio only when > 0, zoning always; each table score that
\* of the highest threshold <= the value, else 50), the divisor is 1, 2 or
\* 3, and the total takes the unrounded mean with the investment weight.
C21_InvestmentIsMeanOfCollected ==
  (/\ ret.op = "rank"
   /\ Get(Ranked, "building_coverage", 0) # NULL
   /\ Get(Ranked, "floor_area_ratio", 0) # NULL) =>
    LET divisor == Components(Ranked)[1]
        sum     == Components(Ranked)[2]
    IN  /\ divisor \in 1..3
        /\ divisor = 1 + (IF HasPositive(Ranked, "building_coverage") THEN 1 ELSE 0)
                       + (IF HasPositive(Ranked, "floor_area_ratio") THEN 1 ELSE 0)
        /\ ret.rank_info.investment_evaluation = Round2(sum, divisor)
        /\ ret.rank_info.ranking_score =
             Round2(divisor * (WeightPrice * ret.rank_info.price_evaluation
                               + WeightLocation * ret.rank_info.location_evaluation
                               + WeightArea * ret.rank_info.area_evaluation)
                    + WeightInvestment * sum,
                    100 * divisor)

\* a coverage of 79 has scored 80, a ratio of 0 was not collected, and the
\* mean with the commercial zoning score is 85
C21_Witness ==
  /\ ret.op = "rank"
  /\ HasPositive(Ranked, "building_coverage")
  /\ Ranked["building_coverage"] = 79
  /\ "floor_area_ratio" \in DOMAIN Ranked
  /\ Ranked["floor_area_ratio"] = 0
  /\ ret.rank_info.investment_evaluation = 8500

\* the list of sample listings a caller holds, <<>> when it holds none
Samples == Get(property_data["cron"], "sample_properties", <<>>)

IsPremium(address) ==
  \E premium_area \in PremiumAreas : Contains(address, premium_area)

\* the numbers and the zoning of the three scenario listings
ScenarioNumbers(samples) ==
  /\ Len(samples) = 3
  /\ <<samples[1].price_numeric, samples[1].land_area_tsubo,
       samples[1].walk_minutes, samples[1].building_coverage,
       samples[1].floor_area_ratio>> = <<1000, 100, 5, 80, 400>>
  /\ Contains(samples[1].usage_area, Shogyo)
  /\ <<samples[2].price_numeric, samples[2].land_area_tsubo,
       samples[2].walk_minutes, samples[2].building_coverage,
       samples[2].floor_area_ratio>> = <<800, 50, 15, 60, 200>>
  /\ Contains(samples[2].usage_area, Dai1ShuJukyo)
  /\ <<samples[3].price_numeric, samples[3].land_area_tsubo,
       samples[3].walk_minutes, samples[3].building_coverage,
       samples[3].floor_area_ratio>> = <<600, 30, 30, 50, 100>>
  /\ Contains(samples[3].usage_area, Dai1ShuTeiso)
  /\ IsPremium(samples[1].address)
  /\ ~IsPremium(samples[3].address)

\* all three listings ranked: S, then B or C, then D, totals strictly
\* decreasing
ScenarioGrades ==
  /\ ret.rank_infos[1].ranking_grade = "S"
  /\ ret.rank_infos[2].ranking_grade \in {"B", "C"}
  /\ ret.rank_infos[3].ranking_grade = "D"
  /\ ret.rank_infos[1].ranking_score > ret.rank_infos[2].ranking_score
  /\ ret.rank_infos[2].ranking_score > ret.rank_infos[3].ranking_score

\* C22 as stated: the three scenario listings, the second one at a
\* non-premium address, are graded S, B or C, and D, with strictly
\* decreasing totals.
C22_ScenarioGradesNonPremium ==
  (/\ ret.op = "samples"
   /\ Len(ret.rank_infos) = 3
   /\ ScenarioNumbers(Samples)
   /\ ~IsPremium(Samples[2].address)) =>
    ScenarioGrades

\* C22 amended: the three scenario listings, the second one at a premium
\* address as in the test data, are graded S, B or C, and D, with strictly
\* decreasing totals; the stored rows carry these grades.
C22_ScenarioGrades ==
  (/\ ret.op = "samples"
   /\ Len(ret.rank_infos) = 3
   /\ ScenarioNumbers(Samples)
   /\ IsPremium(Samples[2].address)) =>
    /\ ScenarioGrades
    /\ \A i \in 1..3 :
         \E row \in RowsWithId(properties, Samples[i].property_id) :
           /\ row["ranking_grade"] = ret.rank_infos[i].ranking_grade
           /\ row["ranking_score"] = ret.rank_infos[i].ranking_score

\* the test's three listings have been ranked: 99.33, 66.00 and 45.17
C22_Witness ==
  /\ ret.op = "samples"
  /\ Len(ret.rank_infos) = 3
  /\ IsPremium(Samples[2].address)
  /\ ret.rank_infos[1].ranking_score = 9933
  /\ ret.rank_infos[2].ranking_score = 6600
  /\ ret.rank_infos[2].ranking_grade = "C"
  /\ ret.rank_infos[3].ranking_score = 4517

\* the URL a direct call of _extract_property_id was made with
HeldUrl == property_data["cron"]["url"]

\* the first run of digits in text
FirstDigitRun(text) ==
  LET at == First({i \in 1..Len(text) : text[i] \in Digits})
  IN  SubSeq(text, at, DigitRunEnd(text, at))

IsLowerHex10(text) ==
  /\ Len(text) = 10
  /\ \A i \in 1..10 : \E h \in 1..16 : text[i] = HexDigits[h]

\* C23: a path with a digit gives "athome_" and the first run of digits of
\* the path; a path without a digit gives "athome_" and 10 lowercase hex
\* characters; the same URL gives the same id in every call.
C23_IdDerivation ==
  /\ [](ret.op = "extract_id" =>
          IF \E i \in 1..Len(HeldUrl.path) : HeldUrl.path[i] \in Digits
            THEN ret.property_id = <<"athome_">> \o FirstDigitRun(HeldUrl.path)
            ELSE /\ Head(ret.property_id) = "athome_"
                 /\ IsLowerHex10(Tail(ret.property_id)))
  /\ [][(ret.op = "extract_id" /\ ret'.op = "extract_id") =>
          ret'.property_id = ret.property_id]_vars

\* the page a direct call of _scrape_property_detail was made with
HeldPage == property_data["cron"]["page"]

\* the element's text holds a number before one of the units, and the
\* number has a numeral
ParseableBefore(soup, element, class, units) ==
  /\ element \in DOMAIN soup
  /\ \E m \in Matches(soup[element], <<>>, class, units) :
       Parses(Group1(soup[element], m))

\* C24: extraction of a fetched page returns a record, whatever the price
\* and area texts are: the id, title, address and zoning are populated, the
\* price is there when the price text parses, the area in m2 when the text
\* has a number before "m2" or the square-metre sign, the area in tsubo
\* when it has either or a number before the tsubo sign, and the station
\* and ratio fields when their texts match.
C24_ExtractionNeverFailsAsAWhole ==
  (ret.op = "scrape_detail" /\ ~HeldPage.fetch_raises) =>
    /\ ret.returned
    /\ {"property_id", "title", "address", "usage_area"} \subseteq DOMAIN ret.data
    /\ ("price_numeric" \in DOMAIN ret.data)
         <=> ParseableBefore(HeldPage, "price", "comma_number", {<<"man", "en">>})
    /\ ("land_area_m2" \in DOMAIN ret.data)
         <=> ParseableBefore(HeldPage, "area", "decimal",
                             {<<"m", "2">>, <<"sq">>})
    /\ ("land_area_tsubo" \in DOMAIN ret.data)
         <=> ParseableBefore(HeldPage, "area", "decimal",
                             {<<"m", "2">>, <<"sq">>, <<"tsubo">>})
    /\ ("walk_minutes" \in DOMAIN ret.data)
         <=> ("station" \in DOMAIN HeldPage
              /\ Matches(HeldPage["station"], <<"toho">>, "digits",
                         {<<"fun">>}) # {})
    /\ ("building_coverage" \in DOMAIN ret.data) <=> ("kenpei" \in DOMAIN HeldPage)
    /\ ("floor_area_ratio" \in DOMAIN ret.data) <=> ("yoseki" \in DOMAIN HeldPage)

\* process p fetches a list page or a detail page in this step
IsFetch(p) ==
  \/ pc[p] = "enumerate" /\ pc'[p] # "enumerate"
  \/ pc[p] = "loop" /\ remaining'[p] # remaining[p]

\* C25: every fetch of a run but the first comes after a sleep of
\* request_delay: between list pages, between the last list page and the
\* first detail page, between detail pages, and after a listing whose
\* processing raised.
C25_DelayBetweenFetches ==
  [][\A p \in Procs : IsFetch(p) => since_fetch[p] \in {"none", "slept"}]_vars

NoDuplicates(list) ==
  \A i, j \in DOMAIN list : list[i] = list[j] => i = j

\* C26: the enumeration ends, for every fetcher and every max_pages: it
\* fetches no more list pages than max_pages, the list it returns has no
\* duplicates and holds the URLs collected, and a started enumeration
\* reaches the for loop.
C26_EnumerationTerminates ==
  /\ [](\A p \in Procs :
          max_pages[p] # NULL => list_fetches[p] <= max_pages[p])
  /\ [](\A p \in Procs :
          pc[p] = "loop" =>
            /\ NoDuplicates(collected_urls[p])
            /\ {collected_urls[p][i] : i \in DOMAIN collected_urls[p]}
                 = property_urls[p])
  /\ (pc["cron"] = "enumerate" ~> pc["cron"] = "loop")

\* process p gets an exception from upsert_property in this step
IsUpsertFailure(p) ==
  /\ pc[p] = "upsert_write"
  /\ url[p] \notin DOMAIN outcome[p]
  /\ url[p] \in DOMAIN outcome'[p]
  /\ outcome'[p][url[p]] = "error"

ErrorUrls(p) == {x \in DOMAIN outcome[p] : outcome[p][x] = "error"}

\* C27: when upsert_property raises for a listing, the exception reaches
\* scrape_all, which counts one error and leaves total, new and updated as
\* they were; the id is not appended to active_property_ids and the store is
\* unchanged.  The set handed to reconciliation holds the id of a failed
\* listing only if another URL of the run was upserted under it, and the
\* logged error count covers every failed upsert.
C27_FailedUpsertNotCounted ==
  /\ [][\A p \in Procs :
          IsUpsertFailure(p) =>
            /\ stats'[p] = [stats[p] EXCEPT !.errors = @ + 1]
            /\ active_property_ids'[p] = active_property_ids[p]
            /\ properties' = properties
            /\ pc'[p] = "loop"]_vars
  /\ [](\A p \in Procs :
          /\ active_property_ids[p] = UpsertedIds(p)
          /\ stats[p].errors = Cardinality(ErrorUrls(p))
          /\ \A i \in DOMAIN reconciled[p] : reconciled[p][i] = UpsertedIds(p)
          /\ pc[p] = "done" =>
               Last(logged[p]).errors = Cardinality(ErrorUrls(p)))

\* a completed run has logged one stored listing and one error; the id of
\* the listing whose upsert raised was not handed to reconciliation
C27_Witness ==
  /\ pc["cron"] = "done"
  /\ Last(scraping_logs).total_properties = 1
  /\ Last(scraping_logs).errors = 1
  /\ \E u \in ErrorUrls("cron") :
       ExtractPropertyId(u) \notin reconciled["cron"][1]

\* C28: records are deactivated only by completed runs: a run that has
\* ended and has switched records from active to inactive has returned, and
\* its run-log entry has status completed and carries that number; a run
\* that ended by raising, or whose entry is not completed, deactivated none.
C28_DeactivatedOnlyByCompletedRuns ==
  \A p \in Procs :
    (pc[p] \in Ended /\ deactivated[p] > 0) =>
      /\ pc[p] = "done"
      /\ Last(scraping_logs).status = "completed"
      /\ Last(scraping_logs).deactivated_properties = deactivated[p]

\* URLs whose upsert has returned during the current run of p
UpsertedUrls(p) ==
  {x \in DOMAIN outcome[p] : outcome[p][x] \in {"new", "updated"}}

\* process p is inside scrape_all
Running(p) == pc[p] \notin {"idle"} \cup Ended

\* C29: at every point of a run total_properties = new_properties +
\* updated_properties = the number of upsert_property calls that have
\* returned in this run, and new_properties grows exactly when the run adds a
\* record to the store, also when two URLs of the list have the same id.
C29_CountersMatchUpserts ==
  /\ [](\A p \in Procs :
          /\ stats[p].total_properties =
               stats[p].new_properties + stats[p].updated_properties
          /\ stats[p].total_properties = Cardinality(UpsertedUrls(p))
          /\ stats[p].new_properties =
               Cardinality({x \in UpsertedUrls(p) : outcome[p][x] = "new"}))
  /\ [][\A p \in Procs :
          Running(p) =>
            stats'[p].new_properties - stats[p].new_properties =
              Cardinality(properties') - Cardinality(properties)]_vars

\* a completed run has upserted both URLs of one listing: two upserts, one
\* of them new, and one record stored
C29_Witness ==
  /\ pc["cron"] = "done"
  /\ Cardinality(UpsertedUrls("cron")) = 2
  /\ Cardinality(UpsertedIds("cron")) = 1
  /\ stats["cron"].total_properties = 2
  /\ stats["cron"].new_properties = 1
  /\ stats["cron"].updated_properties = 1
  /\ Cardinality(properties) = 1

\* C30: deactivate_old_properties(ids) activates no record and changes only
\* is_active and updated_at of the records it deactivates: a record whose id
\* is in ids, and a record that was inactive, stays as it was; the stored ids
\* stay the same; a second call with the same list returns 0 and changes
\* nothing.
C30_DeactivateFrame ==
  [][IsDeactivateCall =>
       LET ids == ret'.ids
       IN  /\ Stored(properties') = Stored(properties)
           /\ Cardinality(properties') = Cardinality(properties)
           /\ \A row \in properties :
                \E row2 \in SameRow(properties', row) :
                  /\ row["is_active"] = 0 => row2["is_active"] = 0
                  /\ (row["property_id"] \in ids \/ row["is_active"] = 0)
                       => row2 = row
                  /\ \A c \in Columns \ {"is_active", "updated_at"} :
                       row2[c] = row[c]
           /\ (ret.op = "deactivate" /\ ret.ids = ids) =>
                /\ ret'.count = 0
                /\ properties' = properties]_vars

\* a call has returned 0 at a later time than the call that deactivated a
\* record outside its list, and a record of its list is active
C30_Witness ==
  /\ ret.op = "deactivate"
  /\ ret.count = 0
  /\ \E row \in properties :
       /\ row["property_id"] \notin ret.ids
       /\ row["is_active"] = 0
       /\ row["scraped_at"] < row["updated_at"]
       /\ row["updated_at"] < clock
  /\ \E row \in properties :
       row["property_id"] \in ret.ids /\ row["is_active"] = 1

TypeOK ==
  /\ \A row \in properties : DOMAIN row = Columns
  /\ clock \in 0..MaxLongClock
  /\ \A p \in Procs :
       pc[p] \in {"idle", "enumerate", "page_sleep", "loop", "upsert_write",
                  "log", "handler"} \cup Ended
====
